---- MODULE Spec2Model ----
(***************************************************************************)
(* Model of the SQAudio synthesis/scheduling core.                         *)
(*                                                                         *)
(*   src/jln/sq_audio_core_vNext_hardline_v0.2h.js                         *)
(*        ClockScheduler, SQAudioEngine (playNote, stopAllVoices, ...)     *)
(*   src/unnamed/part_000                                                  *)
(*        SQAudioCore (playTone, playToneBus, onended)                     *)
(*                                                                         *)
(* All times are audio-clock milliseconds (0.12 s = 120).  A JavaScript    *)
(* number may be NaN; NaN is carried as a separate value on which every    *)
(* comparison is false, as in the language.                                *)
(*                                                                         *)
(* JavaScript runs each handler to completion, so every handler is one     *)
(* action; a pump, with every scheduled function it calls, is one action.  *)
(***************************************************************************)
EXTENDS Integers, Sequences, FiniteSets, TLC

VARIABLES
    inst,        \* which object the caller constructed
    clock,       \* ctx.currentTime / AC.currentTime
    queue,       \* ClockScheduler._queue
    running,     \* ClockScheduler._running
    timer,       \* ClockScheduler._timer # null
    timers,      \* the number of interval timers set by start() and not cleared
    nextId,      \* history: serial number given to each schedule() call
    executed,    \* history: ids of the scheduled functions that were called
    dropped,     \* history: ids discarded by stop()
    last,        \* history: the operation that produced this state
    state,       \* SQAudioEngine.state
    toneBank,    \* SQAudioEngine.toneBank # null
    voices,      \* SQAudioEngine._voices (its key set)
    activeMono,  \* SQAudioEngine._activeMono
    voiceSerial, \* SQAudioEngine._voiceSerial
    nodes,       \* backend sources created by playNote, by voiceId
    cleaned,     \* history: voiceIds whose cleanup action ran
    activeTracks,\* SQAudioCore._activeTracks
    cnodes,      \* backend sources created by SQAudioCore, by entry serial
    ended,       \* entries whose onended callback was delivered
    calls,       \* history: number of API calls made by the caller
    songs,       \* the handles returned by playSong, with their closure state
    enq,         \* history: the note triggers enqueued by playPhrase / playSong
    hidden,      \* document.hidden
    banks,       \* SQAudioEngine.toneBank, waveBank and the ids in _waves
    busCache,    \* SQAudioCore._busCache
    busLog,      \* history: the _getOrCreateBus calls, in order
    fnArg,       \* the arguments a function of the factory or a voice is applied to
    fnRes,       \* what the function returned or committed for fnArg
    crush,       \* the sample-rate crush node made by _createSRCrushNode: its
                 \* step, lastValue and counter, the input samples it was
                 \* given and the output samples it wrote, or {} for none
    ahead,       \* history: ids of the schedule() calls made while running with
                 \* a target time at least lookaheadSec after the clock
    fired,       \* history: the target times of the scheduled functions that
                 \* were called, in the order of the calls
    lfos,        \* the vibrato oscillators created for the voices: the parent
                 \* source, start and stop time, the depth automation
    artCache     \* the artifact caches: _bitCurveCache, _pulseCache, _wave32Cache,
                 \* _noiseBufCache of SQAudioCore, _pulseWaves and _noiseBufs of
                 \* SQAudioEngine, by kind, as entries [key, art]

schedVars == <<queue, running, timer, timers, nextId, executed, dropped>>
engVars == <<state, toneBank, voices, activeMono, voiceSerial, nodes, cleaned>>
coreVars == <<activeTracks, cnodes, ended>>
songVars == <<songs, enq, hidden>>
busVars == <<busCache, busLog>>
fnVars == <<fnArg, fnRes>>
factVars == <<banks, busVars, fnVars, artCache, crush, ahead, lfos, fired>>
vars == <<inst, clock, last, calls, schedVars, engVars, coreVars, songVars,
          factVars>>

-----------------------------------------------------------------------------
(* Bounds of the model *)

MaxTicks == 2      \* clock advances explored
MaxSched == 3      \* direct schedule() calls explored
MaxCalls == 2      \* playNote / stopAllVoices / playTone / playToneBus calls explored
MaxPhrases == 1    \* playPhrase calls explored
MaxSongs == 1      \* playSong calls explored
MaxHandles == 2    \* song handles explored before a song stop
MaxLoads == 2      \* loadBanks calls with arbitrary banks explored
MaxBusCalls == 2   \* direct _getOrCreateBus calls explored
MaxIntervals == 8  \* timer intervals explored

(* Program constants, in milliseconds *)

LookaheadMs == 120     \* opts.lookaheadSec ?? 0.12
IntervalMs == 25       \* opts.intervalMs ?? 25
StopTailMs == 20       \* src.stop(tR + 0.02)
CleanupTailMs == 100   \* tCleanup = tR2 + 0.10
DefaultCutMs == 12     \* tone.monoCutMs ?? 12
DefaultStopMs == 10    \* stopAllVoices: ctx.currentTime + 0.01

-----------------------------------------------------------------------------
(* JavaScript numbers *)

NaN == -1000
Infinity == 1000000

IsNaN(x) == x = NaN
IsFinite(x) == x # NaN /\ x # Infinity

\* a > b and a <= b of the language: false whenever an operand is NaN
Gt(a, b) == ~IsNaN(a) /\ ~IsNaN(b) /\ a > b
Le(a, b) == ~IsNaN(a) /\ ~IsNaN(b) /\ a <= b

\* a + b of the language
Plus(a, b) ==
    IF IsNaN(a) \/ IsNaN(b) THEN NaN
    ELSE IF a = Infinity \/ b = Infinity THEN Infinity
    ELSE a + b

Ids(q) == {q[i].id : i \in 1..Len(q)}

-----------------------------------------------------------------------------
(* ClockScheduler *)

\* A queue entry {t, fn}.  id is the history serial of the schedule() call.
\* fn is described by k, with an argument a:
\*   "ok"      returns
\*   "throw"   throws
\*   "spawn"   calls schedule(t + a, ok)       (an action enqueuing another)
\*   "cleanup" this._voices.delete(a)          (playNote's cleanup action)
Item(t, id, k, a) == [t |-> t, id |-> id, k |-> k, a |-> a]

\* schedule(): the index after which the new item is spliced in
RECURSIVE InsertPos(_, _, _)
InsertPos(q, audioTime, i) ==
    IF i > 0 /\ Gt(q[i].t, audioTime)
    THEN InsertPos(q, audioTime, i - 1)
    ELSE i

schedule(q, item) ==
    LET i == InsertPos(q, item.t, Len(q))
    IN  SubSeq(q, 1, i) \o <<item>> \o SubSeq(q, i + 1, Len(q))

\* A stop() that would leave the queue as it is.
QueueAfterStopKept(q) == q

\* A stop() that would discard the triggers and keep the voice-cleanup actions.
QueueAfterStopCleanups(q) == SelectSeq(q, LAMBDA it : it.k = "cleanup")

\* stop(): this._queue.length = 0
QueueAfterStop(q) == << >>

\* history record of the last operation: its name, numeric argument t, optional
\* argument arg, the queue (pre) and the mono registry (reg) it found, what a
\* pump ran and which calls threw, the voices it found tracked and those whose
\* stop action it called with t, and for a
\* mono trigger the key with the voice it found registered (old, 0 = none)
\* and the voice it created (new), _voiceSerial as it found it (serial)
NoLast == [op |-> "init", t |-> 0, arg |-> {}, pre |-> << >>, reg |-> {},
           ran |-> << >>, threw |-> {}, tracked |-> {}, called |-> {},
           key |-> "", old |-> 0, new |-> 0, serial |-> 0]

TimeVals == {0, 160, NaN}
Deltas == {0, 150}
FnKinds == {"ok", "throw", "spawn"}

\* A start() that would set an interval whatever the state.
TimersAfterStartUnguarded(isRunning, n) == n + 1

\* start(): if (this._running) return; ...; this._timer = setInterval(...)
TimersAfterStart(isRunning, n) == IF isRunning THEN n ELSE n + 1

\* stop(): if (this._timer){ clearInterval(this._timer); this._timer = null; }
TimersAfterStop(hasTimer, n) == IF hasTimer THEN n - 1 ELSE n

Start ==
    /\ inst = "ClockScheduler"
    /\ ~running
    /\ running' = TRUE
    /\ timer' = TRUE
    /\ timers' = TimersAfterStart(running, timers)
    /\ last' = [NoLast EXCEPT !.op = "start"]
    /\ UNCHANGED <<inst, factVars, songVars, clock, calls, queue, nextId, executed, dropped, engVars, coreVars>>

\* start(), whatever the state of the scheduler; old: it was running
StartCall ==
    /\ inst = "ClockScheduler"
    /\ running' = TRUE
    /\ timer' = TRUE
    /\ timers' = TimersAfterStart(running, timers)
    /\ last' = [NoLast EXCEPT !.op = "start", !.old = IF running THEN 1 ELSE 0]
    /\ UNCHANGED <<inst, factVars, songVars, clock, calls, queue, nextId, executed,
                   dropped, engVars, coreVars>>

Stop ==
    /\ inst = "ClockScheduler"
    /\ running' = FALSE
    /\ timer' = FALSE
    /\ timers' = TimersAfterStop(timer, timers)
    /\ queue' = QueueAfterStop(queue)
    /\ dropped' = dropped \cup Ids(queue)
    /\ last' = [NoLast EXCEPT !.op = "stop", !.pre = queue]
    /\ UNCHANGED <<inst, factVars, songVars, clock, calls, nextId, executed, engVars, coreVars>>

Schedule ==
    /\ inst = "ClockScheduler"
    /\ calls < MaxSched
    /\ calls' = calls + 1
    /\ \E t \in TimeVals, k \in FnKinds, a \in Deltas :
          /\ (k # "spawn") => a = 0
          /\ queue' = schedule(queue, Item(t, nextId, k, a))
          /\ last' = [NoLast EXCEPT !.op = "schedule", !.t = t]
    /\ nextId' = nextId + 1
    /\ UNCHANGED <<inst, factVars, songVars, clock, running, timer, timers, executed, dropped, engVars, coreVars>>

\* schedule(audioTime, fn), with the history of the calls made ahead of time
ScheduleCall ==
    /\ inst = "ClockScheduler"
    /\ calls < MaxSched
    /\ calls' = calls + 1
    /\ \E t \in TimeVals, k \in FnKinds, a \in Deltas :
          /\ (k # "spawn") => a = 0
          /\ queue' = schedule(queue, Item(t, nextId, k, a))
          /\ ahead' = IF running /\ Le(clock + LookaheadMs, t)
                      THEN ahead \cup {nextId} ELSE ahead
          /\ last' = [NoLast EXCEPT !.op = "schedule", !.t = t]
    /\ nextId' = nextId + 1
    /\ UNCHANGED <<inst, fired, lfos, banks, busVars, fnVars, artCache, crush, songVars, clock,
                   running, timer, timers, executed, dropped, engVars, coreVars>>

Tick ==
    /\ clock < MaxTicks * IntervalMs
    /\ clock' = clock + IntervalMs
    /\ last' = [NoLast EXCEPT !.op = "tick"]
    /\ UNCHANGED <<inst, factVars, songVars, calls, schedVars, engVars, coreVars>>

-----------------------------------------------------------------------------
(* Shared shapes: backend sources and the mono registries *)

\* An optional argument is the empty set (null / undefined) or a singleton
OrElse(opt, d) == IF opt = {} THEN d ELSE CHOOSE x \in opt : TRUE

Max(a, b) == IF a >= b THEN a ELSE b
Min(a, b) == IF a <= b THEN a ELSE b

\* A clamp that hands x on as it is.
clampNone(x, a, b) == x

\* const clamp = (x, a, b) => non-finite ? a : max(a, min(b, x))
clamp(x, a, b) == IF ~IsFinite(x) THEN a ELSE Max(a, Min(b, x))

\* const numOr = (x, d) => finite ? x : d
numOr(x, d) == IF ~IsFinite(x) THEN d ELSE x

\* A source node with its gain node, as the backend holds it:
\*   key, by        mono key (tone id / track id, "" = none) and creating call
\*   start          src.start(t0)
\*   tOff, tR       note-off and release end (endTime)
\*   stop           the stop time the backend will honour
\*   cancelAt       gain.cancelScheduledValues(t) calls made by a steal
\*   fadeEnd        end of the linear fade to 0 committed by a steal
\*   rel            entry.releaseSec (playToneBus), 0 = not set
\*   handler        an onended callback is attached
Node(key, by, t0, tOff, tR, stop, rel, handler) ==
    [key |-> key, by |-> by, start |-> t0, tOff |-> tOff, tR |-> tR,
     stop |-> stop, cancelAt |-> {}, fadeEnd |-> {},
     rel |-> rel, handler |-> handler]

\* A Map keyed by mono key; an entry names the voice whose stopper / nodes it
\* holds and carries stopAt / endTime.
Entry(key, vid, stopAt) == [key |-> key, vid |-> vid, stopAt |-> stopAt]
MapGet(m, key) == {e \in m : e.key = key}
MapDelete(m, key) == {e \in m : e.key # key}
MapSet(m, key, e) == MapDelete(m, key) \cup {e}
VidOf(opt) == IF opt = {} THEN 0 ELSE (CHOOSE e \in opt : TRUE).vid

\* source.stop(t) on the backend: the last call sets the stop time; a backend
\* that rejects the call throws and keeps the time it had.
BackendStop(n, t, throws) ==
    IF throws THEN n ELSE [n EXCEPT !.stop = t]

-----------------------------------------------------------------------------
(* SQAudioEngine *)

ToneIds == {"lead", "bass", "pad"}

\* The tone bank installed by loadBanks: a mono tone without monoCutMs, a
\* softMono tone with monoCutMs and a short release, a poly tone.
Tone(id) ==
    CASE id = "lead" -> [mono |-> "mono", monoCutMs |-> {}, release |-> 60]
      [] id = "bass" -> [mono |-> "softMono", monoCutMs |-> {30}, release |-> 0]
      [] id = "pad" -> [mono |-> "poly", monoCutMs |-> {}, release |-> 60]

\* A tone bank as given to loadBanks: obj says it is an object, tones is its
\* tones field (absent, or the tone definitions in Object.entries order).  A
\* tone has an optional osc with a type and an optional waveId.
Osc(type, waveId) == [type |-> type, waveId |-> waveId]
ToneDef(id, osc) == [id |-> id, osc |-> osc]
ToneBankOf(obj, tones) == [obj |-> obj, tones |-> tones]

GoodTones ==
    <<ToneDef("lead", {Osc("square", {})}), ToneDef("bass", {Osc("triangle", {})}),
      ToneDef("pad", {Osc("sine", {})})>>
GoodToneBank == ToneBankOf(TRUE, {GoodTones})

\* A wave bank: waves is absent or the entries in Object.entries order; an
\* entry is "ok", "null" (its value is null) or "fail" (createPeriodicWave
\* throws on its coefficients)
Wave(id, k) == [id |-> id, k |-> k]
WaveBankOf(obj, waves) == [obj |-> obj, waves |-> waves]

OscTypes == {"sine", "square", "triangle", "sawtooth", "noise", "wave"}

\* _validateToneBank's loop over Object.entries(tb.tones), from entry i on:
\* the message of the error thrown, or ""
RECURSIVE ValidateTones(_, _)
ValidateTones(tones, i) ==
    IF i > Len(tones) THEN ""
    ELSE LET t == tones[i]
         IN  IF t.id = "" THEN "toneId empty"
             ELSE IF t.osc = {} THEN "missing osc"
             ELSE IF OrElse(t.osc, 0).type \notin OscTypes THEN "osc.type invalid"
             ELSE IF OrElse(t.osc, 0).type = "wave" /\ OrElse(t.osc, 0).waveId = {}
                  THEN "osc.waveId required"
             ELSE ValidateTones(tones, i + 1)

ValidateToneBank(tb) ==
    IF ~tb.obj THEN "toneBank must be object"
    ELSE IF tb.tones = {} THEN "toneBank.tones required"
    ELSE ValidateTones(OrElse(tb.tones, << >>), 1)

ValidateWaveBank(wb) ==
    IF ~wb.obj THEN "waveBank must be object"
    ELSE IF wb.waves = {} THEN "waveBank.waves required"
    ELSE ""

\* The loop that fills _waves, from entry i on.  r = [waves, err]
RECURSIVE BuildWaves(_, _, _)
BuildWaves(r, ws, i) ==
    IF i > Len(ws) THEN r
    ELSE IF ws[i].k = "null"
         THEN [r EXCEPT !.err = "TypeError"]    \* w.real of null
    ELSE IF ws[i].k = "fail"
         THEN BuildWaves(r, ws, i + 1)          \* caught, console.warn
    ELSE BuildWaves([r EXCEPT !.waves = @ \cup {ws[i].id}], ws, i + 1)

NoBanks == [tone |-> {}, wave |-> {}, waves |-> {}]

\* loadBanks({toneBank, waveBank}) on the banks b: the banks after the call
\* and the message of the error it threw, or ""
LoadBanksOn(b, toneBankArg, waveBankArg) ==
    LET e1 == IF toneBankArg = {} THEN ""
              ELSE ValidateToneBank(OrElse(toneBankArg, 0))
        e2 == IF waveBankArg = {} THEN ""
              ELSE ValidateWaveBank(OrElse(waveBankArg, 0))
        tone == IF toneBankArg # {} THEN toneBankArg ELSE b.tone
        wave == IF waveBankArg # {} THEN waveBankArg ELSE b.wave
    IN  IF e1 # "" THEN [banks |-> b, err |-> e1]
        ELSE IF e2 # "" THEN [banks |-> b, err |-> e2]
        ELSE IF wave = {}
             THEN [banks |-> [b EXCEPT !.tone = tone], err |-> ""]
        ELSE LET r == BuildWaves([waves |-> {}, err |-> ""],
                                 OrElse(OrElse(wave, 0).waves, << >>), 1)
             IN  [banks |-> [tone |-> tone, wave |-> wave, waves |-> r.waves],
                  err |-> r.err]

\* The banks a caller passes: none, a good one, and the malformed ones
ToneBankArgs ==
    {{}, {GoodToneBank},
     {ToneBankOf(FALSE, {})},
     {ToneBankOf(TRUE, {})},
     {ToneBankOf(TRUE, {Append(GoodTones, ToneDef("x", {}))})},
     {ToneBankOf(TRUE, {Append(GoodTones, ToneDef("x", {Osc("pulse", {})}))})},
     {ToneBankOf(TRUE, {Append(GoodTones, ToneDef("x", {Osc("wave", {})}))})},
     {ToneBankOf(TRUE, {Append(GoodTones, ToneDef("x", {Osc("wave", {"w1"})}))})}}
WaveBankArgs ==
    {{}, {WaveBankOf(TRUE, {<<Wave("w1", "ok")>>})},
     {WaveBankOf(FALSE, {})},
     {WaveBankOf(TRUE, {})},
     {WaveBankOf(TRUE, {<<Wave("w2", "ok"), Wave("w1", "fail")>>})},
     {WaveBankOf(TRUE, {<<Wave("w2", "ok"), Wave("w1", "null")>>})}}

\* loadBanks({toneBank}) with a good tone bank, once
LoadBanks ==
    /\ inst = "SQAudioEngine"
    /\ ~toneBank
    /\ \E r \in {LoadBanksOn(banks, {GoodToneBank}, {})} :
          /\ banks' = r.banks
          /\ toneBank' = (r.banks.tone # {})
    /\ last' = [NoLast EXCEPT !.op = "loadBanks"]
    /\ UNCHANGED <<inst, fired, lfos, ahead, crush, artCache, busVars, fnVars, songVars, clock, calls, schedVars, state,
                   voices, activeMono, voiceSerial, nodes, cleaned, coreVars>>

\* loadBanks({toneBank, waveBank}) with whatever the caller passes
LoadBanksAny ==
    /\ inst = "SQAudioEngine"
    /\ calls < MaxLoads
    /\ calls' = calls + 1
    /\ \E tb \in ToneBankArgs, wb \in WaveBankArgs :
       \E r \in {LoadBanksOn(banks, tb, wb)} :
          /\ banks' = r.banks
          /\ toneBank' = (r.banks.tone # {})
          /\ last' = [NoLast EXCEPT
                 !.op = IF r.err = "" THEN "loadBanks" ELSE "loadBanksError",
                 !.arg = {[toneBank |-> tb, waveBank |-> wb, banks |-> banks]},
                 !.key = r.err]
    /\ UNCHANGED <<inst, fired, lfos, ahead, crush, artCache, busVars, fnVars, songVars, clock, schedVars, state, voices,
                   activeMono, voiceSerial, nodes, cleaned, coreVars>>

\* unlock(): state = 'running'; sched.start()
Unlock ==
    /\ inst = "SQAudioEngine"
    /\ state # "running"
    /\ state' = "running"
    /\ running' = TRUE
    /\ timer' = TRUE
    /\ timers' = TimersAfterStart(running, timers)
    /\ last' = [NoLast EXCEPT !.op = "unlock"]
    /\ UNCHANGED <<inst, factVars, songVars, clock, calls, queue, nextId, executed, dropped, toneBank,
                   voices, activeMono, voiceSerial, nodes, cleaned, coreVars>>

\* suspend(): this.sched.stop(); this.state = 'suspended'
Suspend ==
    /\ inst = "SQAudioEngine"
    /\ running' = FALSE
    /\ timer' = FALSE
    /\ timers' = TimersAfterStop(timer, timers)
    /\ queue' = QueueAfterStop(queue)
    /\ dropped' = dropped \cup Ids(queue)
    /\ state' = "suspended"
    /\ last' = [NoLast EXCEPT !.op = "suspend", !.pre = queue]
    /\ UNCHANGED <<inst, factVars, songVars, clock, calls, nextId, executed, toneBank,
                   voices, activeMono, voiceSerial, nodes, cleaned, coreVars>>

\* resume(): this.state = 'running'; this.sched.start()
Resume ==
    /\ inst = "SQAudioEngine"
    /\ state' = "running"
    /\ running' = TRUE
    /\ timer' = TRUE
    /\ timers' = TimersAfterStart(running, timers)
    /\ last' = [NoLast EXCEPT !.op = "resume", !.pre = queue]
    /\ UNCHANGED <<inst, factVars, songVars, clock, calls, queue, nextId, executed, dropped,
                   toneBank, voices, activeMono, voiceSerial, nodes, cleaned,
                   coreVars>>

\* visibilitychange with document.hidden: this.sched.stop()
Hide ==
    /\ inst = "SQAudioEngine"
    /\ ~hidden
    /\ hidden' = TRUE
    /\ running' = FALSE
    /\ timer' = FALSE
    /\ timers' = TimersAfterStop(timer, timers)
    /\ queue' = QueueAfterStop(queue)
    /\ dropped' = dropped \cup Ids(queue)
    /\ last' = [NoLast EXCEPT !.op = "hide", !.pre = queue]
    /\ UNCHANGED <<inst, factVars, songs, enq, clock, calls, nextId, executed, engVars,
                   coreVars>>

\* visibilitychange on return: if (this.state === 'running') this.sched.start()
Show ==
    /\ inst = "SQAudioEngine"
    /\ hidden
    /\ hidden' = FALSE
    /\ running' = (running \/ state = "running")
    /\ timer' = (timer \/ state = "running")
    /\ timers' = IF state = "running" THEN TimersAfterStart(running, timers)
                  ELSE timers
    /\ last' = [NoLast EXCEPT !.op = "show", !.pre = queue]
    /\ UNCHANGED <<inst, factVars, songs, enq, clock, calls, queue, nextId, executed,
                   dropped, engVars, coreVars>>

\* playNote, mono handling: prev.stopper(t0 + cutMs/1000); delete(toneId)
StealMono(nd, am, toneId, tone, t0) ==
    LET prev == MapGet(am, toneId)
        cutMs == OrElse(tone.monoCutMs, DefaultCutMs)
    IN  IF tone.mono # "poly" /\ prev # {}
        THEN [nodes |-> [nd EXCEPT ![VidOf(prev)] = BackendStop(@, Plus(t0, cutMs), ~IsFinite(t0))],
              mono |-> MapDelete(am, toneId)]
        ELSE [nodes |-> nd, mono |-> am]

\* A registration that would register the first voice only.
MonoRegisterFirstOnly(am, toneId, tone, vid, tR) ==
    IF tone.mono # "poly" /\ vid = 1 THEN MapSet(am, toneId, Entry(toneId, vid, tR)) ELSE am

\* playNote, end: this._activeMono.set(toneId, {stopAt: tR, stopper: stopFn})
MonoRegister(am, toneId, tone, vid, tR) ==
    IF tone.mono # "poly" THEN MapSet(am, toneId, Entry(toneId, vid, tR)) ELSE am

\* The part of the state that playNote and a pump run read and write
Cur == [queue |-> queue, nextId |-> nextId, voices |-> voices,
        cleaned |-> cleaned, nodes |-> nodes, mono |-> activeMono,
        serial |-> voiceSerial, ran |-> << >>, threw |-> {}, err |-> "",
        stopped |-> {h \in 1..Len(songs) : songs[h].stopped}]

BusKeys == {"master"}

\* playNote(params) on state s; p = [toneId, t0, d, busKey]
\* with t0 optional.  err:
\*   "error"     thrown before any effect: toneBank not loaded, unknown
\*               toneId, unknown bus
\*   "rejected"  t0 is not finite: the mono handling and _voiceSerial++ have
\*               run when g.gain.setValueAtTime(0.0001, t0) is refused by the
\*               backend (a non-finite time is a TypeError); the voice id is
\*               used up and no source exists for it
PlayNoteOn(s, p) ==
    IF ~toneBank \/ p.toneId \notin ToneIds \/ p.busKey \notin BusKeys
    THEN [s EXCEPT !.err = "error"]
    ELSE LET tone == Tone(p.toneId)
             t0 == OrElse(p.t0, clock)
             dSec == Max(1, numOr(p.d, 250))
             tOff == t0 + dSec
             tR == tOff + clamp(tone.release, 1, 6000)
             st == StealMono(s.nodes, s.mono, p.toneId, tone, t0)
             voiceId == s.serial
         IN  IF ~IsFinite(t0)
             THEN [s EXCEPT !.err = "rejected",
                            !.mono = st.mono,
                            !.serial = @ + 1,
                            !.nodes = Append(st.nodes,
                                Node("", "rejected", 0, 0, 0, 0, 0, FALSE))]
             ELSE [s EXCEPT !.err = "",
                            !.serial = @ + 1,
                            !.nodes = Append(st.nodes,
                                Node(p.toneId, "playNote", t0, tOff, tR,
                                     tR + StopTailMs, 0, FALSE)),
                            !.voices = @ \cup {voiceId},
                            !.queue = schedule(@,
                                Item(tR + CleanupTailMs, s.nextId, "cleanup", voiceId)),
                            !.nextId = @ + 1,
                            !.mono = MonoRegister(st.mono, p.toneId, tone, voiceId, tR)]

\* The params the caller passes to playNote
PlayNoteParams ==
    [toneId : ToneIds \cup {"nope"}, t0 : {{}, {100}}, d : {0, NaN},
     busKey : {"master"}]
    \cup {[toneId |-> "lead", t0 |-> {}, d |-> 0, busKey |-> "nobus"],
          [toneId |-> "lead", t0 |-> {NaN}, d |-> 0, busKey |-> "master"],
           [toneId |-> "lead", t0 |-> {}, d |-> 500, busKey |-> "master"]}

\* playNote(p) at this.ctx.currentTime
PlayNoteWith(p) ==
    \E r \in {PlayNoteOn(Cur, p)} :
    LET toneId == p.toneId
        t0opt == p.t0
        prev == IF toneId \in ToneIds /\ Tone(toneId).mono # "poly"
                THEN MapGet(activeMono, toneId) ELSE {}
    IN  /\ queue' = r.queue
        /\ nextId' = r.nextId
        /\ voices' = r.voices
        /\ nodes' = r.nodes
        /\ activeMono' = r.mono
        /\ voiceSerial' = r.serial
        /\ last' = [NoLast EXCEPT
               !.op = CASE r.err = "" -> "playNote"
                        [] r.err = "error" -> "playNoteError"
                        [] r.err = "rejected" -> "playNoteRejected",
               !.t = OrElse(t0opt, clock),
               !.arg = {p},
               !.pre = queue,
               !.reg = activeMono,
               !.tracked = voices,
               !.serial = voiceSerial,
               !.key = toneId,
               !.old = IF r.err = "" THEN VidOf(prev) ELSE 0,
               !.new = IF r.err = "" THEN voiceSerial ELSE 0]

PlayNote ==
    /\ inst = "SQAudioEngine"
    /\ calls < MaxCalls
    /\ calls' = calls + 1
    /\ \E p \in PlayNoteParams : PlayNoteWith(p)
    /\ UNCHANGED <<inst, factVars, songVars, clock, running, timer, timers, executed, dropped, state,
                   toneBank, cleaned, coreVars>>

\* A playNote of the caller among the calls that precede a song stop: of the
\* tone no phrase and no song names
PlayNoteCall ==
    /\ inst = "SQAudioEngine"
    /\ calls < MaxCalls
    /\ calls' = calls + 1
    /\ \E p \in {x \in PlayNoteParams : x.toneId = "bass" /\ x.t0 = {} /\ x.d = 0} : PlayNoteWith(p)
    /\ UNCHANGED <<inst, factVars, songVars, clock, running, timer, timers, executed, dropped, state,
                   toneBank, cleaned, coreVars>>

\* A stopAllVoices without the try/catch: the loop would end at the first
\* voice whose stop throws.
StopAllUncaught(vs, am, nd, t, thr) ==
    LET bad == vs \cap thr
        first == IF bad = {} THEN 0 ELSE CHOOSE v \in bad : \A w \in bad : v <= w
        called == IF bad = {} THEN vs ELSE {v \in vs : v <= first}
    IN  [voices |-> IF bad = {} THEN {} ELSE {v \in vs : v >= first},
         mono |-> IF bad = {} THEN {} ELSE am,
         called |-> called,
         nodes |-> [v \in 1..Len(nd) |->
                      IF v \in called THEN BackendStop(nd[v], t, v \in thr) ELSE nd[v]]]

\* stopAllVoices: for each tracked voice, in insertion order,
\*   try { v.stop(t) } catch {}; this._voices.delete(vid)
\* then this._activeMono.clear().  thr: the voices whose backend stop throws.
\* called: the voices whose stop action was invoked.
StopAllResult(vs, am, nd, t, thr) ==
    [voices |-> {},
     mono |-> {},
     called |-> vs,
     nodes |-> [v \in 1..Len(nd) |->
                  IF v \in vs THEN BackendStop(nd[v], t, v \in thr) ELSE nd[v]]]

StopAllVoices ==
    /\ inst = "SQAudioEngine"
    /\ calls < MaxCalls
    /\ calls' = calls + 1
    /\ \E tStop \in {{}, {0}}, thr \in {{}} \cup {{v} : v \in voices} :
        LET t == OrElse(tStop, clock + DefaultStopMs)
            r == StopAllResult(voices, activeMono, nodes, t, thr)
        IN  /\ voices' = r.voices
            /\ activeMono' = r.mono
            /\ nodes' = r.nodes
            /\ last' = [NoLast EXCEPT !.op = "stopAllVoices", !.arg = tStop,
                                      !.t = t, !.reg = activeMono,
                                      !.tracked = voices, !.called = r.called,
                                      !.threw = thr]
    /\ UNCHANGED <<inst, factVars, songVars, clock, schedVars, state, toneBank, voiceSerial,
                   cleaned, coreVars>>

-----------------------------------------------------------------------------
(* ClockScheduler._pump *)

\* The queue entry of a note trigger enqueued by playPhrase / playSong:
\*   ()=>{ if (handle.stopped) return; this.playNote({toneId, t0: t, dSec, ...}) }
\* note = [toneId, d, eps, busKey, h, ev, base, beat, tempo, win]: the playNote
\* params (dSec = d + eps * 1e-9 beat); and as history the song handle h (0 for
\* a phrase), the index of the event, the tBase of its scheduling pass, ev.t
\* as given, the tempo as given and the onlyWindow of the pass
NoteItem(t, id, note) == [t |-> t, id |-> id, k |-> "note", a |-> 0, note |-> note]

\* try { it.fn(it.t) } catch(e) { console.error(...) }
CallFn(s, it) ==
    LET r == [s EXCEPT !.ran = Append(@, it)]
    IN  CASE it.k = "ok" -> r
          [] it.k = "throw" -> [r EXCEPT !.threw = @ \cup {it.id}]
          [] it.k = "spawn" ->
                [r EXCEPT !.queue = schedule(@, Item(Plus(it.t, it.a), s.nextId, "ok", 0)),
                          !.nextId = @ + 1]
          [] it.k = "cleanup" ->
                [r EXCEPT !.voices = @ \ {it.a}, !.cleaned = @ \cup {it.a}]
          [] it.k = "note" ->
                IF it.note.h \in s.stopped
                THEN [s EXCEPT !.ran = Append(@, [it EXCEPT !.a = -1])]
                ELSE LET q == PlayNoteOn(s, [toneId |-> it.note.toneId, t0 |-> {it.t},
                                             d |-> it.note.d, busKey |-> it.note.busKey])
                     IN  [q EXCEPT !.ran = Append(@, [it EXCEPT !.a =
                                        IF q.err = "" THEN s.serial ELSE 0]),
                                   !.threw = IF q.err = "" THEN @ ELSE @ \cup {it.id},
                                   !.err = ""]

\* while(this._queue.length && this._queue[0].t <= tMax){ it = shift(); call }
RECURSIVE Drain(_, _)
Drain(s, tMax) ==
    IF s.queue # << >> /\ Le(Head(s.queue).t, tMax)
    THEN Drain(CallFn([s EXCEPT !.queue = Tail(@)], Head(s.queue)), tMax)
    ELSE s

Pump ==
    /\ inst \in {"ClockScheduler", "SQAudioEngine"}
    /\ IF ~running
       THEN /\ last' = [NoLast EXCEPT !.op = "pump", !.pre = queue]
            /\ UNCHANGED <<queue, nextId, executed, voices, cleaned, activeMono,
                           voiceSerial, nodes>>
       ELSE \E s \in {Drain(Cur, clock + LookaheadMs)} :
                /\ queue' = s.queue
                /\ nextId' = s.nextId
                /\ voices' = s.voices
                /\ cleaned' = s.cleaned
                /\ activeMono' = s.mono
                /\ voiceSerial' = s.serial
                /\ nodes' = s.nodes
                /\ executed' = executed \cup Ids(s.ran)
                /\ last' = [NoLast EXCEPT !.op = "pump", !.pre = queue,
                                          !.ran = s.ran, !.threw = s.threw]
    /\ UNCHANGED <<inst, factVars, songVars, clock, calls, running, timer, timers, dropped, state,
                   toneBank, coreVars>>

\* _pump(), with the history of the target times in the order of the calls
PumpCall ==
    /\ inst = "ClockScheduler"
    /\ IF ~running
       THEN /\ last' = [NoLast EXCEPT !.op = "pump", !.pre = queue]
            /\ UNCHANGED <<queue, nextId, executed, fired>>
       ELSE \E s \in {Drain(Cur, clock + LookaheadMs)} :
                /\ queue' = s.queue
                /\ nextId' = s.nextId
                /\ executed' = executed \cup Ids(s.ran)
                /\ fired' = fired \o [i \in 1..Len(s.ran) |-> s.ran[i].t]
                /\ last' = [NoLast EXCEPT !.op = "pump", !.pre = queue,
                                          !.ran = s.ran, !.threw = s.threw]
    /\ UNCHANGED <<inst, lfos, banks, busVars, fnVars, artCache, crush, ahead,
                   songVars, clock, calls, running, timer, timers, dropped, engVars, coreVars>>

\* The interval timer of the scheduler: intervalMs after the last callback
\* the clock has advanced by as much and, when the scheduler is running, the
\* callback pumps.  A stopped scheduler has no timer; time passes.
Interval ==
    /\ inst = "ClockScheduler"
    /\ clock < MaxIntervals * IntervalMs
    /\ clock' = clock + IntervalMs
    /\ IF ~running
       THEN /\ last' = [NoLast EXCEPT !.op = "interval", !.pre = queue]
            /\ UNCHANGED <<queue, nextId, executed>>
       ELSE \E s \in {Drain(Cur, clock + IntervalMs + LookaheadMs)} :
                /\ queue' = s.queue
                /\ nextId' = s.nextId
                /\ executed' = executed \cup Ids(s.ran)
                /\ last' = [NoLast EXCEPT !.op = "interval", !.pre = queue,
                                          !.ran = s.ran, !.threw = s.threw]
    /\ UNCHANGED <<inst, factVars, songVars, calls, running, timer, timers, dropped, engVars,
                   coreVars>>

-----------------------------------------------------------------------------
(* SQAudioEngine.playPhrase *)

\* Beat offsets and durations are counted in quarter beats.  Tempo is counted
\* in thousandths of a beat per minute, so that a tempo below 1 is a value.
QuarterBeats == 4
DefaultTempo == 120000     \* opts.tempo ?? ph.tempo ?? 120
MinTempo == 1000           \* Math.max(1, tempo)
DefaultDBeat == 1          \* ev.d ?? 0.25

\* A beat length taken from the tempo as given, without the floor of 1.
BeatMsUnclamped(tempoOpt) == 60000000 \div OrElse(tempoOpt, DefaultTempo)

\* beatSec = 60 / Math.max(1, tempo), in milliseconds
BeatMs(tempoOpt) == 60000000 \div Max(MinTempo, OrElse(tempoOpt, DefaultTempo))

\* beats * beatSec
Times(q, beatMs) ==
    IF IsNaN(q) THEN NaN
    ELSE IF q = Infinity THEN Infinity
    ELSE (q * beatMs) \div QuarterBeats

\* Math.max(a, b) of the language: NaN when an operand is NaN
MathMax(a, b) == IF IsNaN(a) \/ IsNaN(b) THEN NaN ELSE Max(a, b)

\* opts.tempo: not given, 1500 and 0.5 beats per minute
Tempos == {{}, {1500000}, {500}}

\* An event {t, d, toneId}, each optional
Ev(t, d, toneId) == [t |-> t, d |-> d, toneId |-> toneId]

\* An event offset that would be used as given.
EventBeatRaw(ev) == OrElse(ev.t, NaN)

\* (ev.t || 0): undefined, 0 and NaN give 0
EventBeat(ev) ==
    IF ev.t = {} \/ ev.t = {NaN} THEN 0 ELSE OrElse(ev.t, 0)

\* The well-formed phrase and the phrase with malformed events: offset NaN,
\* offset Infinity, duration NaN, an unknown tone (playNote throws), no tone
\* id at all, each next to well-formed events
Phrases ==
    {<<Ev({0}, {}, {"lead"}), Ev({1}, {2}, {}), Ev({8}, {}, {"pad"})>>,
     <<Ev({1}, {}, {"pad"}), Ev({NaN}, {}, {"pad"}), Ev({Infinity}, {}, {"pad"}),
       Ev({}, {NaN}, {"pad"}), Ev({0}, {}, {"nope"}), Ev({1}, {}, {}),
       Ev({1}, {1}, {"pad"})>>}

\* The body of the loop over ph.events for event i.  s = [queue, nextId, enq]
PhraseEvent(s, ev, i, tStart, tempo, toneIdDefault) ==
    LET beatMs == BeatMs(tempo)
        t == Plus(tStart, Times(EventBeat(ev), beatMs))
        dBeat == OrElse(ev.d, DefaultDBeat)
        dSec == MathMax(1, Times(dBeat, beatMs))
        toneId == IF ev.toneId # {} THEN ev.toneId ELSE toneIdDefault
        note == [toneId |-> OrElse(toneId, ""), d |-> dSec, eps |-> 0,
                 busKey |-> "master", h |-> 0, ev |-> i, base |-> tStart,
                 beat |-> ev.t, tempo |-> tempo, win |-> {}]
    IN  IF toneId = {} THEN s
        ELSE [queue |-> schedule(s.queue, NoteItem(t, s.nextId, note)),
              nextId |-> s.nextId + 1,
              enq |-> Append(s.enq, [t |-> t, id |-> s.nextId, note |-> note])]

\* for (const ev of (ph.events||[])), from event i on
RECURSIVE PhraseEvents(_, _, _, _, _, _)
PhraseEvents(s, events, i, tStart, tempo, toneIdDefault) ==
    IF i > Len(events) THEN s
    ELSE PhraseEvents(PhraseEvent(s, events[i], i, tStart, tempo, toneIdDefault),
                      events, i + 1, tStart, tempo, toneIdDefault)

\* playPhrase(ph, {tempo, toneId}) from this.ctx.currentTime
PlayPhraseWith(ph, tempo, toneIdDefault) ==
    LET tStart == clock     \* opts.tStart ?? this.ctx.currentTime
    IN  \E r \in {PhraseEvents([queue |-> queue, nextId |-> nextId, enq |-> enq],
                               ph, 1, tStart, tempo, toneIdDefault)} :
        /\ queue' = r.queue
        /\ nextId' = r.nextId
        /\ enq' = r.enq
        /\ last' = [NoLast EXCEPT !.op = "playPhrase", !.t = tStart,
                                  !.arg = tempo, !.pre = queue,
                                  !.new = Len(ph)]

PlayPhrase ==
    /\ inst = "SQAudioEngine"
    /\ calls < MaxPhrases
    /\ calls' = calls + 1
    /\ \E ph \in Phrases, tempo \in Tempos, toneIdDefault \in {{}, {"lead"}} :
        PlayPhraseWith(ph, tempo, toneIdDefault)
    /\ UNCHANGED <<inst, factVars, clock, running, timer, timers, executed, dropped, engVars,
                   coreVars, songs, hidden>>

\* A playPhrase among the calls that precede a song stop
PlayPhraseCall ==
    /\ inst = "SQAudioEngine"
    /\ calls < MaxCalls
    /\ calls' = calls + 1
    /\ \E ph \in {x \in Phrases : Len(x) = 3} : PlayPhraseWith(ph, {}, {"lead"})
    /\ UNCHANGED <<inst, factVars, clock, running, timer, timers, executed, dropped, engVars,
                   coreVars, songs, hidden>>

-----------------------------------------------------------------------------
(* SQAudioEngine.playSong *)

DefaultLoopLeadMs == 6000   \* opts.loopLeadSec ?? 6.0

\* The song: one track { toneId: "pad", events }.  Offsets 0, 1, 1.5, 1.25 and
\* 2 beats; the second event lasts 2 beats and names its own tone, the third
\* ends at beat 2.
SongEvents ==
    <<Ev({0}, {}, {}), Ev({4}, {8}, {"lead"}), Ev({6}, {2}, {}), Ev({5}, {1}, {}),
      Ev({8}, {}, {})>>
TrackToneId == {"pad"}

\* A loop window in quarter beats; finite = FALSE is {start, end: Infinity}
Window(start, end) == [start |-> start, end |-> end]

\* opts of playSong: tempo, loop and loopLeadSec, each optional
SongOpts ==
    {[tempo |-> {}, loop |-> {}, lead |-> {}],
     [tempo |-> {}, loop |-> {Window(0, 16)}, lead |-> {}],
     [tempo |-> {1500000}, loop |-> {Window(4, 8)}, lead |-> {0}]}

\* The loop clamp: dBeat as handed on, and whether 1e-9 beat is taken off it.
\*   if (endBeat > onlyWindow.end - eps) dBeat = max(0, (onlyWindow.end - bt) - eps)
\* On the quarter-beat grid endBeat > end - eps is endBeat >= end.
ClampUnclipped(bt, dBeat, win) == [d |-> dBeat, eps |-> 0]
LoopClamp(bt, dBeat, win) ==
    IF win # {} /\ OrElse(win, 0).end # Infinity /\ ~IsNaN(dBeat)
       /\ bt + dBeat >= OrElse(win, 0).end
    THEN [d |-> Max(0, OrElse(win, 0).end - bt), eps |-> -1]
    ELSE [d |-> dBeat, eps |-> 0]

\* The body of scheduleTracks for event i.  s = [queue, nextId, enq, nextLoopI]
TrackEvent(s, ev, i, h, tempo, tBase, win, windowBeatBase) ==
    LET beatMs == BeatMs(tempo)
        bt == EventBeat(ev)
        w == OrElse(win, Window(0, 0))
        t == Plus(tBase, Times(bt - windowBeatBase, beatMs))
        c == LoopClamp(bt, OrElse(ev.d, DefaultDBeat), win)
        toneId == IF ev.toneId # {} THEN ev.toneId ELSE TrackToneId
        note == [toneId |-> OrElse(toneId, ""), d |-> MathMax(1, Times(c.d, beatMs)),
                 eps |-> c.eps, busKey |-> "master", h |-> h, ev |-> i,
                 base |-> tBase, beat |-> ev.t, tempo |-> tempo, win |-> win]
    IN  IF win # {} /\ (bt < w.start \/ bt >= w.end) THEN s
        ELSE IF c.eps # 0 /\ c.d <= 0 THEN s
        ELSE IF toneId = {} THEN s
        ELSE [s EXCEPT !.queue = schedule(@, NoteItem(t, s.nextId, note)),
                       !.nextId = @ + 1,
                       !.enq = Append(@, [t |-> t, id |-> s.nextId, note |-> note])]

\* scheduleTracks(tBase, 0, onlyWindow, windowBeatBase), from event i on
RECURSIVE ScheduleTracks(_, _, _, _, _, _, _)
ScheduleTracks(s, i, h, tempo, tBase, win, windowBeatBase) ==
    IF i > Len(SongEvents) THEN s
    ELSE ScheduleTracks(
             TrackEvent(s, SongEvents[i], i, h, tempo, tBase, win, windowBeatBase),
             i + 1, h, tempo, tBase, win, windowBeatBase)

\* A window start that would be off by a millisecond per iteration.
NextLoopTDrifting(loopBaseT, nextLoopI, loopLenSec) ==
    loopBaseT + nextLoopI * (loopLenSec + 1)

\* nextLoopT = loopBaseT + nextLoopI * loopLenSec
NextLoopT(loopBaseT, nextLoopI, loopLenSec) == loopBaseT + nextLoopI * loopLenSec

\* A first repeat placed on the window's start instead of its end.
LoopBaseTAtStart(sg) ==
    sg.tStart + Times(OrElse(sg.loop, 0).start, BeatMs(sg.tempo))

\* The closure constants of a looping song
LoopBaseT(sg) == sg.tStart + Times(OrElse(sg.loop, 0).end, BeatMs(sg.tempo))
LoopLenSec(sg) ==
    Times(OrElse(sg.loop, 0).end - OrElse(sg.loop, 0).start, BeatMs(sg.tempo))

\* pumpLoop's while loop.  s = [queue, nextId, enq, nextLoopI]
RECURSIVE FillLoop(_, _, _, _)
FillLoop(s, h, sg, tMax) ==
    IF NextLoopT(LoopBaseT(sg), s.nextLoopI, LoopLenSec(sg)) <= tMax
    THEN FillLoop([ScheduleTracks(s, 1, h, sg.tempo,
                                  NextLoopT(LoopBaseT(sg), s.nextLoopI, LoopLenSec(sg)),
                                  sg.loop, OrElse(sg.loop, 0).start)
                   EXCEPT !.nextLoopI = @ + 1], h, sg, tMax)
    ELSE s

\* A pumpLoop that fills up to the scheduler's lookahead only.
PumpLoopAtNoLead(s, h, sg, tNow) ==
    IF sg.stopped THEN s
    ELSE FillLoop(s, h, sg, tNow + LookaheadMs)

\* pumpLoop() called at tNow = this.ctx.currentTime:
\*   if (handle.stopped) return; fill up to tNow + lookaheadSec + loopLeadSec
PumpLoopAt(s, h, sg, tNow) ==
    IF sg.stopped THEN s
    ELSE FillLoop(s, h, sg,
                  tNow + LookaheadMs + OrElse(sg.lead, DefaultLoopLeadMs))

PumpLoopOn(s, h, sg) == PumpLoopAt(s, h, sg, clock)

\* loop && typeof loop.start === 'number' && ... && loop.end > loop.start
Looping(o) == o.loop # {} /\ OrElse(o.loop, 0).end > OrElse(o.loop, 0).start

\* playSong(song, opts) from this.ctx.currentTime; the handle is h
PlaySongWith(o) ==
    LET h == Len(songs) + 1
        tStart == clock     \* opts.tStart ?? this.ctx.currentTime
        s0 == [queue |-> queue, nextId |-> nextId, enq |-> enq, nextLoopI |-> 0]
        sg0 == [stopped |-> FALSE, timer |-> Looping(o), tStart |-> tStart,
                tempo |-> o.tempo, loop |-> o.loop, lead |-> o.lead,
                nextLoopI |-> 0]
        wEnd == OrElse(o.loop, 0).end
    IN  \E s \in {IF Looping(o)
                  THEN \* intro [0, loop.end), then the events after loop.end,
                       \* the first repeat wherever it lies; nextLoopI = 1;
                       \* pumpLoop()
                       PumpLoopOn(
                         [ScheduleTracks(
                            ScheduleTracks(
                              ScheduleTracks(s0, 1, h, o.tempo, tStart,
                                             {Window(0, wEnd)}, 0),
                              1, h, o.tempo, tStart, {Window(wEnd, Infinity)}, 0),
                            1, h, o.tempo, LoopBaseT(sg0), o.loop,
                            OrElse(o.loop, 0).start)
                          EXCEPT !.nextLoopI = 1],
                         h, sg0)
                  ELSE \* no loop: scheduleTracks(tStart, 0, null, 0)
                       ScheduleTracks(s0, 1, h, o.tempo, tStart, {}, 0)} :
           /\ queue' = s.queue
           /\ nextId' = s.nextId
           /\ enq' = s.enq
           /\ songs' = Append(songs, [sg0 EXCEPT !.nextLoopI = s.nextLoopI])
           /\ last' = [NoLast EXCEPT !.op = "playSong", !.t = tStart,
                                     !.pre = queue, !.new = h]

PlaySong ==
    /\ inst = "SQAudioEngine"
    /\ calls < MaxSongs
    /\ calls' = calls + 1
    /\ \E o \in SongOpts : PlaySongWith(o)
    /\ UNCHANGED <<inst, factVars, clock, running, timer, timers, executed, dropped, engVars,
                   coreVars, hidden>>

\* A playSong while fewer than MaxHandles songs have been started
PlaySongCall ==
    /\ inst = "SQAudioEngine"
    /\ Len(songs) < MaxHandles
    /\ \E o \in {x \in SongOpts : x.tempo = {}} : PlaySongWith(o)
    /\ UNCHANGED <<inst, factVars, clock, calls, running, timer, timers, executed, dropped, engVars,
                   coreVars, hidden>>

\* loopTimer = setInterval(pumpLoop, ...): one call of pumpLoop by the timer
PumpLoop ==
    /\ inst = "SQAudioEngine"
    /\ \E h \in 1..Len(songs) :
        /\ songs[h].timer
        /\ \E s \in {PumpLoopOn([queue |-> queue, nextId |-> nextId, enq |-> enq,
                                  nextLoopI |-> songs[h].nextLoopI], h, songs[h])} :
               /\ queue' = s.queue
               /\ nextId' = s.nextId
               /\ enq' = s.enq
               /\ songs' = [songs EXCEPT ![h].nextLoopI = s.nextLoopI]
               /\ last' = [NoLast EXCEPT !.op = "pumpLoop", !.pre = queue, !.new = h]
    /\ UNCHANGED <<inst, factVars, clock, calls, running, timer, timers, executed, dropped, engVars,
                   coreVars, hidden>>

\* The loop timers that are set, each calling its pumpLoop at tNow, from song
\* h on.  s = [queue, nextId, enq, songs]
RECURSIVE LoopTimers(_, _, _)
LoopTimers(s, h, tNow) ==
    IF h > Len(s.songs) THEN s
    ELSE IF ~s.songs[h].timer THEN LoopTimers(s, h + 1, tNow)
    ELSE LET r == PumpLoopAt([queue |-> s.queue, nextId |-> s.nextId,
                              enq |-> s.enq, nextLoopI |-> s.songs[h].nextLoopI],
                             h, s.songs[h], tNow)
         IN  LoopTimers([queue |-> r.queue, nextId |-> r.nextId, enq |-> r.enq,
                         songs |-> [s.songs EXCEPT ![h].nextLoopI = r.nextLoopI]],
                        h + 1, tNow)

\* loopTimer = setInterval(pumpLoop, Math.max(20, this.sched.intervalMs)): the
\* period after the last firing the clock has advanced by as much and every
\* loop timer that is set calls its pumpLoop.  Without a timer time passes.
LoopInterval ==
    /\ inst = "SQAudioEngine"
    /\ clock < MaxIntervals * IntervalMs
    /\ clock' = clock + Max(20, IntervalMs)
    /\ \E s \in {LoopTimers([queue |-> queue, nextId |-> nextId, enq |-> enq,
                              songs |-> songs], 1, clock + Max(20, IntervalMs))} :
           /\ queue' = s.queue
           /\ nextId' = s.nextId
           /\ enq' = s.enq
           /\ songs' = s.songs
    /\ last' = [NoLast EXCEPT !.op = "loopInterval", !.pre = queue]
    /\ UNCHANGED <<inst, factVars, calls, running, timer, timers, executed, dropped, engVars,
                   coreVars, hidden>>

\* handle.stop(): stopped = true; clearInterval(loopTimer); this.sched.stop();
\* if (this.state === 'running') this.sched.start();
\* this.stopAllVoices(this.ctx.currentTime + 0.01)
SongStop ==
    /\ inst = "SQAudioEngine"
    /\ \E h \in 1..Len(songs) :
        LET t == clock + DefaultStopMs
            r == StopAllResult(voices, activeMono, nodes, t, {})
        IN  /\ songs' = [songs EXCEPT ![h].stopped = TRUE, ![h].timer = FALSE]
            /\ queue' = QueueAfterStop(queue)
            /\ dropped' = dropped \cup Ids(queue)
            /\ running' = (state = "running")
            /\ timer' = (state = "running")
            /\ timers' = IF state = "running"
                          THEN TimersAfterStart(FALSE, TimersAfterStop(timer, timers))
                          ELSE TimersAfterStop(timer, timers)
            /\ voices' = r.voices
            /\ activeMono' = r.mono
            /\ nodes' = r.nodes
            /\ last' = [NoLast EXCEPT !.op = "songStop", !.t = t, !.pre = queue,
                                      !.reg = activeMono, !.tracked = voices,
                                      !.called = r.called, !.new = h]
    /\ UNCHANGED <<inst, factVars, clock, calls, nextId, executed, state, toneBank,
                   voiceSerial, cleaned, coreVars, enq, hidden>>

-----------------------------------------------------------------------------
(* Gain automation: the envelope of a voice *)

\* An automation event of an AudioParam: setValueAtTime (set) or a ramp that
\* ends with value v at time t.  The backend keeps the events ordered by time,
\* events of one time in the order of the calls.
AutoEvent(kind, v, t) == [kind |-> kind, v |-> v, t |-> t]

RECURSIVE EventPos(_, _, _)
EventPos(tl, t, i) == IF i > 0 /\ tl[i].t > t THEN EventPos(tl, t, i - 1) ELSE i

Commit(tl, e) ==
    LET i == EventPos(tl, e.t, Len(tl))
    IN  SubSeq(tl, 1, i) \o <<e>> \o SubSeq(tl, i + 1, Len(tl))

\* A cancelScheduledValues that removes nothing.
CancelScheduledNone(tl, t) == tl

\* cancelScheduledValues(t): every event with a time >= t is removed; a ramp
\* is an event at its end time
CancelScheduledValues(tl, t) == SelectSeq(tl, LAMBDA e : e.t < t)

\* Value between two points of a ramp.  Levels of playNote are counted in
\* hundredths of an octave above the floor 0.0001, on which an exponential
\* ramp is a straight line; levels of _applyEnvelope are counted in 0.0001.
Interp(v0, t0, v1, t1, t) == v0 + ((v1 - v0) * (t - t0)) \div (t1 - t0)

\* The value of the parameter at time t, and the value it comes from just
\* before t (t after the first event)
LastUpTo(tl, t) == EventPos(tl, t, Len(tl))
ValueFrom(tl, i, t) ==
    IF i < Len(tl) /\ tl[i + 1].kind = "ramp"
    THEN Interp(tl[i].v, tl[i].t, tl[i + 1].v, tl[i + 1].t, t)
    ELSE tl[i].v
ValueAt(tl, t) == ValueFrom(tl, LastUpTo(tl, t), t)
ValueBefore(tl, t) == ValueFrom(tl, LastUpTo(tl, t - 1), t)

\* playNote: levels.  g0 = 0.0001 is 0, 0.0002 is 100; peak is
\* max(0.0002, baseGain * v); susLevel is max(0.0002, peak * sus), sus given
\* by its distance below 1 in hundredths of an octave (SusZero for sus = 0)
G0 == 0
MinLevel == 100
SusZero == -100000

\* expAt(v0, v1, t0x, t1x, tx)
expAt(v0, v1, t0x, t1x, tx) ==
    IF ~(t1x > t0x) THEN v1
    ELSE LET a == Max(G0, v0)
             b == Max(G0, v1)
             tc == Max(t0x, Min(t1x, tx))     \* p clamped to 0..1
         IN  Interp(a, t0x, b, t1x, tc)

\* The automation playNote commits to g.gain for a note at t0 of duration
\* dSec, env in ms, levels as above
NoteEnvelope(a) ==
    LET t0 == a.t0
        peak == Max(MinLevel, a.peak)
        tA == t0 + clamp(a.attack, 0, 4000)
        tD == tA + clamp(a.decay, 0, 4000)
        tOff == t0 + Max(1, numOr(a.d, 250))
        tR == tOff + clamp(a.release, 1, 6000)
        susLevel == Max(MinLevel, peak + a.sus)
        tl1 == Commit(Commit(Commit(<< >>, AutoEvent("set", G0, t0)),
                             AutoEvent("ramp", peak, tA)),
                      AutoEvent("ramp", susLevel, tD))
        levelAtOff == IF tOff <= tA THEN expAt(G0, peak, t0, tA, tOff)
                      ELSE expAt(peak, susLevel, tA, tD, tOff)
    IN  IF tOff <= tD
        THEN Commit(Commit(CancelScheduledValues(tl1, tOff),
                           AutoEvent("set", Max(G0, levelAtOff), tOff)),
                    AutoEvent("ramp", G0, tR))
        ELSE Commit(Commit(tl1, AutoEvent("set", susLevel, tOff)),
                    AutoEvent("ramp", G0, tR))

NoteEnvArgs ==
    [kind : {"note"}, t0 : {100}, peak : {1300}, attack : {0, 5, 40},
     decay : {0, 30, 80}, sus : {0, -100, SusZero}, release : {60, 0},
     d : {1, 20, 35, 40, 60, 250}]

\* _applyEnvelope(g, t0, env_ms, len_ms): levels in 0.0001, linear ramps
Floor == 1
Unity == 10000

ApplyEnvelope(a) ==
    LET t0 == a.t0
        A == OrElse(a.attack, 2)
        D == OrElse(a.decay, 160)
        S == OrElse(a.sus, 0)
        R == OrElse(a.release, 120)
        peakT == t0 + A
        decayT == t0 + A + D
        releaseStart == t0 + a.len
    IN  Commit(Commit(Commit(Commit(Commit(CancelScheduledValues(<< >>, t0),
            AutoEvent("set", Floor, t0)),
            AutoEvent("ramp", Unity, peakT)),
            AutoEvent("ramp", S, decayT)),
            AutoEvent("set", S, releaseStart)),
            AutoEvent("ramp", Floor, releaseStart + R))

ToneEnvArgs ==
    [kind : {"tone"}, t0 : {100}, attack : {{}, {50}}, decay : {{}, {100}},
     sus : {{}, {5000}}, release : {{}, {20}}, len : {400, 200, 100, 20}]

\* The envelope part of a playNote call
NoteEnv ==
    /\ inst = "SQAudioEngine"
    /\ fnArg \in NoteEnvArgs
    /\ fnRes' = NoteEnvelope(fnArg)
    /\ last' = [NoLast EXCEPT !.op = "envelope"]
    /\ UNCHANGED <<inst, fired, lfos, ahead, crush, artCache, banks, busVars, fnArg, songVars, clock, calls, schedVars,
                   engVars, coreVars>>

\* The envelope part of a playTone / playToneBus call
ToneEnv ==
    /\ inst = "SQAudioCore"
    /\ fnArg \in ToneEnvArgs
    /\ fnRes' = ApplyEnvelope(fnArg)
    /\ last' = [NoLast EXCEPT !.op = "envelope"]
    /\ UNCHANGED <<inst, fired, lfos, ahead, crush, artCache, banks, busVars, fnArg, songVars, clock, calls, schedVars,
                   engVars, coreVars>>

-----------------------------------------------------------------------------
(* SQAudioCore *)

\* Tone JSON given to playTone / playToneBus: len_ms and env_ms.release, each
\* optional.
ToneJsons == {[len |-> {}, release |-> {}], [len |-> {0}, release |-> {0}]}
TrackIds == {{}, {"bgm"}}
KeyOf(trackOpt) == OrElse(trackOpt, "")

\* _applyEnvelope returns releaseStart + R, with R = env_ms.release ?? 120 and
\* releaseStart = t0 + len_ms, len_ms = toneJson.len_ms ?? 400
EndTime(tj, t0) == t0 + OrElse(tj.len, 400) + OrElse(tj.release, 120)

\* playTone, monophonic check: cancelScheduledValues(now), linear ramp to 0 at
\* now + 0.01, sourceNode.stop(now + 0.02), delete(trackId)
StealTone(cn, reg, trackOpt, now) ==
    LET old == MapGet(reg, KeyOf(trackOpt))
    IN  IF trackOpt # {} /\ old # {}
        THEN [nodes |-> [cn EXCEPT ![VidOf(old)] =
                           BackendStop([@ EXCEPT !.cancelAt = @ \cup {now},
                                                 !.fadeEnd = {now + 10}],
                                       now + 20, FALSE)],
              reg |-> MapDelete(reg, KeyOf(trackOpt))]
        ELSE [nodes |-> cn, reg |-> reg]

\* playToneBus, monophonic check: the fade lasts r; r is declared inside the
\* if (old.gainNode) block, so old.sourceNode.stop(now + r + 0.02) raises a
\* ReferenceError, which the surrounding catch swallows: the source is not
\* stopped.
CutOf(monoCutMs, oldRel) ==
    IF monoCutMs # {} /\ OrElse(monoCutMs, 0) >= 0
    THEN Max(5, OrElse(monoCutMs, 0))
    ELSE IF oldRel # 0 THEN oldRel ELSE 20

StealToneBus(cn, reg, trackOpt, now, monoCutMs) ==
    LET old == MapGet(reg, KeyOf(trackOpt))
    IN  IF trackOpt # {} /\ old # {}
        THEN [nodes |-> [cn EXCEPT ![VidOf(old)] =
                           [@ EXCEPT !.cancelAt = @ \cup {now},
                                     !.fadeEnd = {now + CutOf(monoCutMs, cn[VidOf(old)].rel)}]],
              reg |-> MapDelete(reg, KeyOf(trackOpt))]
        ELSE [nodes |-> cn, reg |-> reg]

\* if (trackId != null && srcInfo) this._activeTracks.set(trackId, entry)
TrackRegister(reg, trackOpt, vid, endTime) ==
    IF trackOpt # {}
    THEN MapSet(reg, KeyOf(trackOpt), Entry(KeyOf(trackOpt), vid, endTime))
    ELSE reg

\* _getBitDepthCurve: bits = Math.max(2, Math.min(16, bits | 0)); the curve
\* cache is keyed by it.  NaN | 0 and Infinity | 0 are 0.
BitsKey(bits) == IF ~IsFinite(bits) THEN 2 ELSE Max(2, Min(16, bits))

\* AC.sampleRate
SampleRate == 48000

\* filter of a tone JSON: hpf_hz, lpf_hz, bit_depth, sr_crush_hz, each optional
Filter(hpf, lpf, bd, sr) == [hpf |-> hpf, lpf |-> lpf, bd |-> bd, sr |-> sr]
NoFilter == Filter({}, {}, {}, {})

\* The chain _getOrCreateBus builds: highpass and lowpass frequency, the key
\* of the shaper curve, the rate of the crush node (0 = no node), the output
\* gain in hundredths; id is the serial of the chain
Chain(key, filter, masterGain, id) ==
    LET srCrushHz == OrElse(filter.sr, 44100)
    IN  [key |-> key,
         hpf |-> OrElse(filter.hpf, 20),
         lpf |-> OrElse(filter.lpf, 12000),
         bd |-> BitsKey(OrElse(filter.bd, 12)),
         sr |-> IF srCrushHz > 0 /\ srCrushHz < SampleRate THEN srCrushHz ELSE 0,
         gain |-> IF IsFinite(masterGain) THEN masterGain ELSE 100,
         id |-> id]

\* key = String(busKey || "default")
BusKeyOf(busKey) == IF busKey = "" THEN "default" ELSE busKey

\* A lookup that builds the chain anew on every call.
GetOrCreateBusAnew(c, busKey, filter, masterGain, id) ==
    [cache |-> {b \in c : b.key # BusKeyOf(busKey)}
                  \cup {Chain(BusKeyOf(busKey), filter, masterGain, id)},
     built |-> TRUE]

\* _getOrCreateBus on the cache c: the cache after the call, and whether a
\* chain was built
GetOrCreateBus(c, busKey, filter, masterGain, id) ==
    IF \E b \in c : b.key = BusKeyOf(busKey)
    THEN [cache |-> c, built |-> FALSE]
    ELSE [cache |-> c \cup {Chain(BusKeyOf(busKey), filter, masterGain, id)},
          built |-> TRUE]

BusCall(busKey, filter, masterGain, built) ==
    [key |-> BusKeyOf(busKey), filter |-> filter, gain |-> masterGain,
     built |-> built]

BusKeyArgs == {"bgm", ""}
FilterArgs == {NoFilter, Filter({200}, {4000}, {20}, {8000})}
GainArgs == {100, 50, NaN}

\* A direct _getOrCreateBus(busKey, filter, masterGain) call
GetBus ==
    /\ inst = "SQAudioCore"
    /\ calls < MaxBusCalls
    /\ calls' = calls + 1
    /\ \E busKey \in BusKeyArgs, filter \in FilterArgs, masterGain \in GainArgs :
       \E r \in {GetOrCreateBus(busCache, busKey, filter, masterGain,
                                Len(busLog) + 1)} :
          /\ busCache' = r.cache
          /\ busLog' = Append(busLog, BusCall(busKey, filter, masterGain, r.built))
          /\ last' = [NoLast EXCEPT !.op = "getOrCreateBus",
                                    !.key = BusKeyOf(busKey), !.reg = busCache]
    /\ UNCHANGED <<inst, fired, lfos, ahead, crush, artCache, banks, fnVars, songVars, clock, schedVars, engVars,
                   coreVars>>

PlayTone ==
    /\ inst = "SQAudioCore"
    /\ calls < MaxCalls
    /\ calls' = calls + 1
    /\ \E tj \in ToneJsons, whenSec \in {0, 25}, trackOpt \in TrackIds :
        LET t0 == clock + Max(0, whenSec)
            old == MapGet(activeTracks, KeyOf(trackOpt))
            st == StealTone(cnodes, activeTracks, trackOpt, clock)
            endTime == EndTime(tj, t0)
            vid == Len(cnodes) + 1
        IN  /\ cnodes' = Append(st.nodes,
                   Node(KeyOf(trackOpt), "playTone", t0, t0 + OrElse(tj.len, 400),
                        endTime, endTime + 50, 0, trackOpt # {}))
            /\ activeTracks' = TrackRegister(st.reg, trackOpt, vid, endTime)
            /\ last' = [NoLast EXCEPT !.op = "playTone", !.t = t0,
                   !.reg = activeTracks, !.key = KeyOf(trackOpt),
                   !.old = IF trackOpt # {} THEN VidOf(old) ELSE 0, !.new = vid]
    /\ UNCHANGED <<inst, factVars, songVars, clock, schedVars, engVars, ended>>

PlayToneBus ==
    /\ inst = "SQAudioCore"
    /\ calls < MaxCalls
    /\ calls' = calls + 1
    /\ \E tj \in ToneJsons, whenSec \in {0, 25}, trackOpt \in TrackIds,
          monoCutMs \in {{}, {0}, {30}} :
        LET t0 == clock + Max(0, whenSec)
            old == MapGet(activeTracks, KeyOf(trackOpt))
            st == StealToneBus(cnodes, activeTracks, trackOpt, clock, monoCutMs)
            endTime == EndTime(tj, t0)
            releaseSec == Max(10, OrElse(tj.release, 10))
            vid == Len(cnodes) + 1
        IN  /\ cnodes' = Append(st.nodes,
                   Node(KeyOf(trackOpt), "playToneBus", t0, t0 + OrElse(tj.len, 400),
                        endTime, endTime + 50,
                        IF trackOpt # {} THEN releaseSec ELSE 0, FALSE))
            /\ activeTracks' = TrackRegister(st.reg, trackOpt, vid, endTime)
            /\ \E r \in {GetOrCreateBus(busCache, "bgm", NoFilter, 100,
                                        Len(busLog) + 1)} :
                  /\ busCache' = r.cache
                  /\ busLog' = Append(busLog, BusCall("bgm", NoFilter, 100, r.built))
            /\ last' = [NoLast EXCEPT !.op = "playToneBus", !.t = t0,
                   !.arg = monoCutMs,
                   !.reg = activeTracks, !.key = KeyOf(trackOpt),
                   !.old = IF trackOpt # {} THEN VidOf(old) ELSE 0, !.new = vid]
    /\ UNCHANGED <<inst, fired, lfos, ahead, crush, artCache, banks, fnVars, songVars, clock, schedVars, engVars, ended>>

\* An onended that would delete the trackId entry without comparing.
OnEndedAlwaysDelete(reg, trackId, vid) == MapDelete(reg, trackId)

\* srcInfo.node.onended: if (this._activeTracks.get(trackId) === entry) delete
OnEndedTracks(reg, trackId, vid) ==
    IF \E e \in MapGet(reg, trackId) : e.vid = vid
    THEN MapDelete(reg, trackId)
    ELSE reg

\* The backend delivers onended once the source has stopped.
OnEnded ==
    /\ inst = "SQAudioCore"
    /\ \E vid \in 1..Len(cnodes) :
        /\ cnodes[vid].handler
        /\ vid \notin ended
        /\ clock >= cnodes[vid].stop
        /\ ended' = ended \cup {vid}
        /\ activeTracks' = OnEndedTracks(activeTracks, cnodes[vid].key, vid)
        /\ last' = [NoLast EXCEPT !.op = "onended", !.reg = activeTracks,
                                  !.key = cnodes[vid].key, !.old = vid]
    /\ UNCHANGED <<inst, factVars, songVars, clock, calls, schedVars, engVars, cnodes>>

-----------------------------------------------------------------------------
(* Vibrato *)

\* fx.vib of a note: depth in cents, delay, attack and release in ms
Vib(depth, delay, attack, release) ==
    [depth |-> depth, delay |-> delay, attack |-> attack, release |-> release]

\* A vibrato oscillator with its depth gain, as the backend holds it: the
\* voice of the parent source, l.start(t) and the stop time the backend will
\* honour, the automation calls made on the depth gain in the order of the calls
Lfo(of, start, stop, pts) == [of |-> of, start |-> start, stop |-> stop, pts |-> pts]

\* playNote, vibrato: the calls on lg.gain for a note at t0 with note-off
\* tOff2 and release end tR2
VibratoPoints(vib, t0, tOff2, tR2) ==
    LET depth == Max(0, numOr(vib.depth, 0))
        delay == Max(0, numOr(vib.delay, 0))
        att == Max(0, numOr(vib.attack, 20))
        rel == Max(0, numOr(vib.release, 30))
        tOn == t0 + delay
        tPeak == tOn + att
        tRel == Min(tR2, tOff2 + rel)
    IN  <<AutoEvent("set", 0, t0), AutoEvent("set", 0, t0), AutoEvent("set", 0, tOn),
          IF att > 0 THEN AutoEvent("ramp", depth, tPeak)
                     ELSE AutoEvent("set", depth, tOn),
          AutoEvent("set", depth, tOff2),
          IF tRel > tOff2 THEN AutoEvent("ramp", 0, tRel)
                          ELSE AutoEvent("set", 0, tOff2)>>

\* stopFn = (tStop) => { o.stop(tStop); if (lfoStopFn) lfoStopFn(tStop) }, each
\* in its own try, called for the voices vs.  The oscillator and its vibrato
\* are started together and get the same time, so the backend refuses both
\* calls or none (thr: the voices whose stop it refuses).
LfoStopFn(lf, vs, tStop, thr) ==
    [i \in 1..Len(lf) |->
        IF lf[i].of \in vs THEN BackendStop(lf[i], tStop, lf[i].of \in thr) ELSE lf[i]]

\* playNote, vibrato and start/stop: with fx.vib of depth > 0 on an oscillator
\* voice, lfo.start(t0) and lfoStopFn(tR + 0.02).  Every tone of the bank is
\* an oscillator.
NoteVibrato(lf, vibOpt, voiceId, t0, tOff, tR) ==
    IF vibOpt # {} /\ Max(0, numOr(OrElse(vibOpt, 0).depth, 0)) > 0
    THEN Append(lf, Lfo(voiceId, t0, tR + StopTailMs,
                        VibratoPoints(OrElse(vibOpt, 0), t0, tOff, tR)))
    ELSE lf

\* fx.vib as the caller passes it: none, depth 0, and depth 30 cents with no
\* delay and with a delay longer than the note
VibArgs ==
    {{}, {Vib(0, 0, 20, 30)}}
    \cup {{Vib(30, delay, attack, release)} :
             delay \in {0, 500}, attack \in {0, NaN}, release \in {0, 30}}

VibNoteParams ==
    [toneId : {"lead", "pad"}, t0 : {{}}, d : {100, 500}, busKey : {"master"}]

\* playNote({toneId, t0, dSec, fx: {vib}})
PlayNoteVib ==
    /\ inst = "SQAudioEngine"
    /\ calls < MaxCalls
    /\ calls' = calls + 1
    /\ \E p \in VibNoteParams, vibOpt \in VibArgs : \E r \in {PlayNoteOn(Cur, p)} :
        LET t0 == OrElse(p.t0, clock)
            tone == Tone(p.toneId)
            prev == IF tone.mono # "poly" THEN MapGet(activeMono, p.toneId) ELSE {}
            cutMs == OrElse(tone.monoCutMs, DefaultCutMs)
            stolen == IF prev = {} THEN {} ELSE {VidOf(prev)}
        IN  /\ queue' = r.queue
            /\ nextId' = r.nextId
            /\ voices' = r.voices
            /\ nodes' = r.nodes
            /\ activeMono' = r.mono
            /\ voiceSerial' = r.serial
            /\ lfos' = IF r.err # "" THEN lfos
                       ELSE NoteVibrato(LfoStopFn(lfos, stolen, t0 + cutMs, {}),
                                        vibOpt, voiceSerial, t0,
                                        r.nodes[voiceSerial].tOff,
                                        r.nodes[voiceSerial].tR)
            /\ last' = [NoLast EXCEPT
                   !.op = IF r.err = "" THEN "playNote" ELSE "playNoteError",
                   !.t = t0, !.arg = {p}, !.pre = queue, !.reg = activeMono,
                   !.tracked = voices, !.serial = voiceSerial, !.key = p.toneId,
                   !.old = IF r.err = "" THEN VidOf(prev) ELSE 0,
                   !.new = IF r.err = "" THEN voiceSerial ELSE 0]
    /\ UNCHANGED <<inst, fired, banks, busVars, fnVars, artCache, crush, ahead, songVars,
                   clock, running, timer, timers, executed, dropped, state, toneBank,
                   cleaned, coreVars>>

\* stopAllVoices(tStop) with vibrato oscillators among the voices
StopAllVoicesVib ==
    /\ inst = "SQAudioEngine"
    /\ calls < MaxCalls
    /\ calls' = calls + 1
    /\ \E tStop \in {{}, {0}}, thr \in {{}} \cup {{v} : v \in voices} :
        LET t == OrElse(tStop, clock + DefaultStopMs)
            r == StopAllResult(voices, activeMono, nodes, t, thr)
        IN  /\ voices' = r.voices
            /\ activeMono' = r.mono
            /\ nodes' = r.nodes
            /\ lfos' = LfoStopFn(lfos, r.called, t, thr)
            /\ last' = [NoLast EXCEPT !.op = "stopAllVoices", !.arg = tStop,
                                      !.t = t, !.reg = activeMono,
                                      !.tracked = voices, !.called = r.called,
                                      !.threw = thr]
    /\ UNCHANGED <<inst, fired, banks, busVars, fnVars, artCache, crush, ahead, songVars,
                   clock, schedVars, state, toneBank, voiceSerial, cleaned, coreVars>>

\* tone.vibrato of a tone JSON: depth_semi in hundredths of a semitone,
\* rate_hz, delay_ms, each optional
ToneVib(depth, rate, delay) == [depth |-> depth, rate |-> rate, delay |-> delay]

\* _applyVibrato(osc, baseHz, t0, endTime, vibrato): nothing without vibrato,
\* with a depth or a rate that is not > 0; else the depth is 0 at t0 and full
\* at t0 + delay, lfo.start(t0), lfo.stop(endTime + 0.05)
ApplyVibrato(lf, vibOpt, vid, t0, endTime) ==
    LET v == OrElse(vibOpt, ToneVib({}, {}, {}))
        depthSemi == OrElse(v.depth, 0)
        rateHz == OrElse(v.rate, 0)
        delaySec == Max(0, OrElse(v.delay, 0))
    IN  IF vibOpt = {} \/ ~Gt(depthSemi, 0) \/ ~Gt(rateHz, 0) THEN lf
        ELSE Append(lf, Lfo(vid, t0, endTime + 50,
                            <<AutoEvent("set", 0, t0), AutoEvent("set", 0, t0),
                              AutoEvent("set", depthSemi, t0 + delaySec)>>))

ToneVibArgs ==
    {{}, {ToneVib({}, {}, {})}, {ToneVib({50}, {6}, {})}, {ToneVib({50}, {6}, {30})},
     {ToneVib({50}, {0}, {})}, {ToneVib({NaN}, {6}, {})}}

\* playTone(toneJson, whenSec, trackId) with toneJson.vibrato on a pitched
\* oscillator (osc.wave other than "noise")
PlayToneVib ==
    /\ inst = "SQAudioCore"
    /\ calls < MaxCalls
    /\ calls' = calls + 1
    /\ \E tj \in ToneJsons, whenSec \in {0, 25}, trackOpt \in TrackIds,
          vibOpt \in ToneVibArgs :
        LET t0 == clock + Max(0, whenSec)
            old == MapGet(activeTracks, KeyOf(trackOpt))
            st == StealTone(cnodes, activeTracks, trackOpt, clock)
            endTime == EndTime(tj, t0)
            vid == Len(cnodes) + 1
        IN  /\ cnodes' = Append(st.nodes,
                   Node(KeyOf(trackOpt), "playTone", t0, t0 + OrElse(tj.len, 400),
                        endTime, endTime + 50, 0, trackOpt # {}))
            /\ activeTracks' = TrackRegister(st.reg, trackOpt, vid, endTime)
            /\ lfos' = ApplyVibrato(lfos, vibOpt, vid, t0, endTime)
            /\ last' = [NoLast EXCEPT !.op = "playTone", !.t = t0,
                   !.reg = activeTracks, !.key = KeyOf(trackOpt),
                   !.old = IF trackOpt # {} THEN VidOf(old) ELSE 0, !.new = vid]
    /\ UNCHANGED <<inst, fired, banks, busVars, fnVars, artCache, crush, ahead, songVars,
                   clock, schedVars, engVars, ended>>

-----------------------------------------------------------------------------
(* The artifact caches *)

MaxArtCalls == 2

\* The caches, one Map per kind of artifact, each a set of [key, art]
NoCache == [curve |-> {}, pulse |-> {}, wave32 |-> {}, noise |-> {}]
CacheEntry(key, art) == [key |-> key, art |-> art]
CacheHas(c, kind, key) == \E e \in c[kind] : e.key = key
CacheGet(c, kind, key) == (CHOOSE e \in c[kind] : e.key = key).art

\* Math.round(a / b) for a >= 0, b > 0
RoundDiv(a, b) == (2 * a + b) \div (2 * b)

\* n of _getBitDepthCurve
CurvePoints == 2048

\* The curve _getBitDepthCurve computes for the clamped bits: point i is
\* x = (i / (n - 1)) * 2 - 1, q = Math.round((x * 0.5 + 0.5) * (levels - 1))
\* / (levels - 1), curve[i] = q * 2 - 1.  (x * 0.5 + 0.5) * (levels - 1) is
\* i * (levels - 1) / (n - 1), never within rounding of a half since n - 1 is
\* odd; a point is kept as the numerator of q * 2 - 1 over levels - 1.
BitDepthCurve(bits) ==
    LET levels == 2 ^ bits
    IN  [points |-> [i \in 0..(CurvePoints - 1) |->
            2 * RoundDiv(i * (levels - 1), CurvePoints - 1) - (levels - 1)]]

\* The common shape of the cached getters: return the stored artifact when
\* the key is cached, else store and return the new one
Lookup(c, kind, key, art) ==
    IF CacheHas(c, kind, key)
    THEN [cache |-> c, art |-> CacheGet(c, kind, key), hit |-> TRUE]
    ELSE [cache |-> [c EXCEPT ![kind] = @ \cup {CacheEntry(key, art)}],
          art |-> art, hit |-> FALSE]

\* _getBitDepthCurve(bits = 12)
GetBitDepthCurveOn(c, bitsOpt) ==
    LET bits == BitsKey(OrElse(bitsOpt, 12))
    IN  Lookup(c, "curve", bits, BitDepthCurve(bits))

BitsArgs ==
    {{}, {NaN}, {Infinity}, {-3}, {0}, {2}, {3}, {4}, {8}, {10}, {11}, {12}, {13}, {16},
     {20}}

ArtCall(op, arg, r) ==
    /\ calls < MaxArtCalls
    /\ calls' = calls + 1
    /\ artCache' = r.cache
    /\ fnArg' = arg
    /\ fnRes' = r.art
    /\ last' = [NoLast EXCEPT !.op = op, !.key = IF r.hit THEN "hit" ELSE "miss",
                              !.reg = artCache]
    /\ UNCHANGED <<inst, fired, lfos, ahead, crush, banks, busVars, songVars, clock, schedVars, engVars,
                   coreVars>>

GetBitDepthCurve ==
    /\ inst = "SQAudioCore"
    /\ \E b \in BitsArgs :
         \E r \in {GetBitDepthCurveOn(artCache, b)} :
            ArtCall("getBitDepthCurve", b, r)

\* Sample-and-hold noise.  A rate is counted in tenths of a Hz; a buffer is
\* kept as the lengths of its runs, in order: a run is the stretch of samples
\* written with one draw of Math.random, and no two draws are taken equal.
\* Both loops take a new draw every step samples from sample 0 on (the
\* counter c reaches 0, or i % step is 0), until the buffer is full: run k
\* starts at sample (k - 1) * step.
HoldRuns(length, step) ==
    [k \in 1..((length + step - 1) \div step) |-> Min(step, length - (k - 1) * step)]

FloorHz(rate) == rate \div 10

\* The buffer of _getNoiseBuffer for a key: one second at AC.sampleRate
NoiseBuffer(key) ==
    LET length == SampleRate
        step == Max(1, SampleRate \div Max(20, key))
    IN  [length |-> length, loop |-> TRUE, runs |-> HoldRuns(length, step)]

\* _getNoiseBuffer(rateHz = 600)
GetNoiseBufferOn(c, rateOpt) ==
    LET key == Max(20, FloorHz(OrElse(rateOpt, 6000)))
    IN  Lookup(c, "noise", key, NoiseBuffer(key))

\* makeNoiseBuffer(ctx, rateHz) for a rate that is finite and positive: two
\* seconds at ctx.sampleRate
makeNoiseBuffer(r) ==
    LET len == Max(1, SampleRate * 2)
        step == Max(1, SampleRate \div Max(1, r))
    IN  [length |-> len, loop |-> TRUE, runs |-> HoldRuns(len, step)]

\* playNote, noise source with osc.noiseRate finite and at least 1 Hz:
\* key = Math.floor(r), the buffer taken from _noiseBufs or made for the key
NoteNoiseOn(c, rate) ==
    LET key == FloorHz(rate)
    IN  Lookup(c, "noise", key, makeNoiseBuffer(key))

NoiseRateArgs == {{}, {200}, {230}, {250}, {300}, {6000}, {6005}, {100}, {205}}
NoteNoiseArgs == {200, 230, 250, 300, 205, 100, 470, 480}

GetNoiseBuffer ==
    /\ inst = "SQAudioCore"
    /\ \E a \in NoiseRateArgs :
         \E r \in {GetNoiseBufferOn(artCache, a)} :
            ArtCall("getNoiseBuffer", a, r)

NoteNoise ==
    /\ inst = "SQAudioEngine"
    /\ \E a \in NoteNoiseArgs :
         \E r \in {NoteNoiseOn(artCache, a)} :
            ArtCall("noteNoise", {a}, r)

\* Pulse waves.  A duty is counted in 1/10000; a PeriodicWave is kept as
\* what its coefficient tables were computed from: the duty whose sines fill
\* them, or the nibble string whose samples are transformed.
PulseWave(D) == [duty |-> D]

\* _getPulseWave(duty = 0.5): D is the duty clamped to 0.05..0.95, 0.5 when
\* not finite; the key is Math.round(D * 1000) / 1000; the coefficients are
\* computed from D
GetPulseWaveOn(c, dutyOpt) ==
    LET duty == OrElse(dutyOpt, 5000)
        D == Max(500, Min(9500, IF IsFinite(duty) THEN duty ELSE 5000))
        dutyKey == RoundDiv(D, 10) * 10
    IN  Lookup(c, "pulse", dutyKey, PulseWave(D))

DutyArgs == {{}, {NaN}, {1250}, {1234}, {1226}, {1230}, {200}, {9900}}

\* makePulseWave(ctx, duty): d = clamp(Number(duty) || 0.5, 0.01, 0.99)
makePulseWave(duty) == PulseWave(clamp(IF duty = 0 THEN 5000 ELSE duty, 100, 9900))

\* playNote, square oscillator with osc.duty: d = clamp(Number(osc.duty),
\* 0.01, 0.99); the wave for d is taken from _pulseWaves or made, unless d is
\* 0.5 (a plain square, no wave: {})
NotePulseOn(c, duty) ==
    LET d == clamp(duty, 100, 9900)
    IN  IF d # 5000 THEN Lookup(c, "pulse", d, makePulseWave(d))
        ELSE [cache |-> c, art |-> {}, hit |-> FALSE]

NoteDutyArgs == {NaN, 1250, 1234, 1226, 50, 5000, 9950}

\* key of _getWave32: wave32.nibbles.trim().toUpperCase()
NibblesKey(nibbles) ==
    CASE nibbles \in {"0f", " 0F ", "0F"} -> "0F"
      [] nibbles \in {"f0 ", "F0"} -> "F0"
      [] nibbles \in {"", "  "} -> ""

Wave32(key) == [nibbles |-> key]

\* _getWave32(wave32): null without a nibble string or with an empty key
\* (nothing cached), else the wave computed from the key
GetWave32On(c, wave32) ==
    IF wave32 = {} \/ NibblesKey(OrElse(wave32, "")) = ""
    THEN [cache |-> c, art |-> {}, hit |-> FALSE]
    ELSE LET key == NibblesKey(OrElse(wave32, ""))
         IN  Lookup(c, "wave32", key, Wave32(key))

Wave32Args == {{}, {"0f"}, {" 0F "}, {"0F"}, {"f0 "}, {"F0"}, {""}, {"  "}}

GetPulseWave ==
    /\ inst = "SQAudioCore"
    /\ \E a \in DutyArgs :
         \E r \in {GetPulseWaveOn(artCache, a)} :
            ArtCall("getPulseWave", a, r)

GetWave32 ==
    /\ inst = "SQAudioCore"
    /\ \E a \in Wave32Args :
         \E r \in {GetWave32On(artCache, a)} :
            ArtCall("getWave32", a, r)

NotePulse ==
    /\ inst = "SQAudioEngine"
    /\ \E a \in NoteDutyArgs :
         \E r \in {NotePulseOn(artCache, a)} :
            ArtCall("notePulse", {a}, r)

-----------------------------------------------------------------------------
(* Sample-rate crush *)

MaxSamples == 7      \* samples given to one crush node
BlockLens == 1..3    \* lengths of the blocks the samples arrive in

\* The input signal: sample j (from 0) of a channel carries the value j + 1,
\* so that an output value names the input sample it was copied from
InputSample(j) == j + 1
InputBlock(from, len) == [k \in 1..len |-> InputSample(from + k - 1)]

\* SRCrushProcessor constructor: step from processorOptions
WorkletStep(sampleRate, targetHz) ==
    Max(1, sampleRate \div Max(1, targetHz))

\* ScriptProcessor fallback: target and step
FallbackStep(sampleRate, srCrushHz) ==
    Max(1, sampleRate \div Max(20, Min(sampleRate, srCrushHz)))

CrushNode(impl, step) ==
    [impl |-> impl, step |-> step, lastValue |-> 0, counter |-> 0,
     fed |-> 0, blocks |-> 0, out |-> << >>]

\* _createSRCrushNode(srCrushHz): no node (bypass) when the target is within
\* 1 Hz of the context rate or above; the worklet when it is loaded, else the
\* ScriptProcessor.  srCrushHz || sampleRate: 0 and NaN give the context rate.
CreateSRCrushNodeOn(srCrushHz, workletLoaded) ==
    LET targetHz == IF srCrushHz = 0 \/ IsNaN(srCrushHz) THEN SampleRate ELSE srCrushHz
    IN  IF targetHz >= SampleRate - 1 THEN {}
        ELSE IF workletLoaded
        THEN {CrushNode("worklet", WorkletStep(SampleRate, targetHz))}
        ELSE {CrushNode("script", FallbackStep(SampleRate, targetHz))}

\* A hold loop that starts every block with a fresh sample.
RECURSIVE HoldPerBlock(_, _, _)
HoldPerBlock(n, inCh, i) ==
    IF i > Len(inCh) THEN n
    ELSE LET taken == i = 1 \/ n.counter = 0
             lv == IF taken THEN inCh[i] ELSE n.lastValue
             c == IF taken THEN n.step ELSE n.counter
         IN  HoldPerBlock([n EXCEPT !.lastValue = lv, !.counter = c - 1,
                                    !.out = Append(@, lv)], inCh, i + 1)

\* The hold loop of one channel of one block, from sample i of the block:
\* if (counter === 0) { lastValue = inCh[i]; counter = step; }
\* outCh[i] = lastValue; counter--;
RECURSIVE Hold(_, _, _)
Hold(n, inCh, i) ==
    IF i > Len(inCh) THEN n
    ELSE LET taken == n.counter = 0
             lv == IF taken THEN inCh[i] ELSE n.lastValue
             c == IF taken THEN n.step ELSE n.counter
         IN  Hold([n EXCEPT !.lastValue = lv, !.counter = c - 1,
                            !.out = Append(@, lv)], inCh, i + 1)

\* SRCrushProcessor.process(inputs, outputs): every channel of inputs[0] in
\* turn, with the one lastValue and counter of the processor
RECURSIVE ProcessOn(_, _, _)
ProcessOn(n, input, channel) ==
    IF channel > Len(input) THEN n
    ELSE ProcessOn(Hold(n, input[channel], 1), input, channel + 1)

\* node.onaudioprocess: channel 0 of the input buffer
OnAudioProcessOn(n, inputBuffer) == Hold(n, inputBuffer[1], 1)

SRCrushArgs == {16000, 24000, 12000, 9000, 10, 47000, 48000, 0, 44100}

CreateSRCrushNode ==
    /\ inst = "SQAudioCore"
    /\ crush = {}
    /\ \E hz \in SRCrushArgs, workletLoaded \in BOOLEAN :
         /\ crush' = CreateSRCrushNodeOn(hz, workletLoaded)
         /\ fnArg' = {hz}
         /\ last' = [NoLast EXCEPT !.op = "createSRCrushNode"]
    /\ UNCHANGED <<inst, fired, lfos, ahead, artCache, banks, busVars, fnRes, songVars, clock, calls,
                   schedVars, engVars, coreVars>>

\* A block of the node's input arrives.  Every source of the factory is mono
\* (an oscillator, or a one-channel buffer) and gains, filters and shapers
\* keep the channel count, so inputs[0] has one channel.
CrushBlock(impl, op) ==
    /\ \E n \in crush, len \in BlockLens :
         /\ n.impl = impl
         /\ n.fed + len <= MaxSamples
         /\ \E block \in {InputBlock(n.fed, len)} :
              crush' = {[(IF impl = "worklet" THEN ProcessOn(n, <<block>>, 1)
                          ELSE OnAudioProcessOn(n, <<block>>))
                         EXCEPT !.fed = @ + len, !.blocks = @ + 1]}
    /\ last' = [NoLast EXCEPT !.op = op]
    /\ UNCHANGED <<inst, fired, lfos, ahead, artCache, banks, busVars, fnVars, songVars, clock, calls,
                   schedVars, engVars, coreVars>>

Process ==
    /\ inst = "SQAudioCore"
    /\ CrushBlock("worklet", "process")

OnAudioProcess ==
    /\ inst = "SQAudioCore"
    /\ CrushBlock("script", "onaudioprocess")

-----------------------------------------------------------------------------

InitBase ==
    /\ clock = 0
    /\ queue = << >>
    /\ running = FALSE
    /\ timer = FALSE
    /\ timers = 0
    /\ nextId = 1
    /\ executed = {}
    /\ dropped = {}
    /\ last = NoLast
    /\ state = "init"
    /\ toneBank = FALSE
    /\ voices = {}
    /\ activeMono = {}
    /\ voiceSerial = 1
    /\ nodes = << >>
    /\ cleaned = {}
    /\ activeTracks = {}
    /\ cnodes = << >>
    /\ ended = {}
    /\ calls = 0
    /\ songs = << >>
    /\ enq = << >>
    /\ hidden = FALSE
    /\ banks = NoBanks
    /\ busCache = {}
    /\ busLog = << >>
    /\ artCache = NoCache
    /\ ahead = {}
    /\ crush = {}
    /\ lfos = << >>
    /\ fired = << >>

\* The state after construction, no function of the factory applied
InitAll == InitBase /\ fnArg = {} /\ fnRes = {}

Init == InitAll /\ inst \in {"ClockScheduler", "SQAudioEngine", "SQAudioCore"}

NextSched ==
    \/ Start
    \/ Stop
    \/ Schedule
    \/ Pump
    \/ Tick

NextTimer ==
    \/ Start
    \/ Stop
    \/ ScheduleCall
    \/ Interval

NextStop ==
    \/ LoadBanks
    \/ Unlock
    \/ PlayNoteCall
    \/ PlayPhraseCall
    \/ PlaySongCall
    \/ PumpLoop
    \/ SongStop
    \/ Pump

NextLifecycle ==
    \/ StartCall
    \/ Stop
    \/ Unlock
    \/ Suspend
    \/ Resume
    \/ Hide
    \/ Show
    \/ PlaySong
    \/ SongStop
    \/ Tick

NextFire ==
    \/ Start
    \/ Stop
    \/ Schedule
    \/ PumpCall
    \/ Tick

NextEngine ==
    \/ LoadBanks
    \/ Unlock
    \/ PlayNote
    \/ StopAllVoices
    \/ Pump
    \/ Tick

NextPhrase ==
    \/ LoadBanks
    \/ Unlock
    \/ PlayPhrase
    \/ Pump
    \/ Tick

NextSong ==
    \/ LoadBanks
    \/ Unlock
    \/ PlaySong
    \/ PumpLoop
    \/ SongStop
    \/ Pump
    \/ Tick

NextVib ==
    \/ LoadBanks
    \/ PlayNoteVib
    \/ StopAllVoicesVib
    \/ PlayToneVib
    \/ Tick

NextLoop ==
    \/ Unlock
    \/ PlaySong
    \/ LoopInterval
    \/ SongStop

NextLife ==
    \/ LoadBanks
    \/ Unlock
    \/ Suspend
    \/ Resume
    \/ Hide
    \/ Show
    \/ PlayPhrase
    \/ Pump
    \/ Tick

NextVoice ==
    \/ LoadBanks
    \/ Unlock
    \/ PlayNote
    \/ StopAllVoices
    \/ Suspend
    \/ Resume
    \/ Hide
    \/ Show
    \/ Pump
    \/ Tick

NextBanks ==
    \/ LoadBanks
    \/ LoadBanksAny

NextEnv ==
    \/ NoteEnv
    \/ ToneEnv

NextCurve ==
    \/ GetBitDepthCurve

NextNoise ==
    \/ GetNoiseBuffer
    \/ NoteNoise

NextCrush ==
    \/ CreateSRCrushNode
    \/ Process
    \/ OnAudioProcess

NextCache ==
    \/ GetBitDepthCurve
    \/ GetPulseWave
    \/ GetWave32
    \/ GetNoiseBuffer
    \/ NoteNoise
    \/ NotePulse

NextBus ==
    \/ GetBus
    \/ PlayToneBus

NextCore ==
    \/ PlayTone
    \/ PlayToneBus
    \/ OnEnded
    \/ Tick

Next ==
    \/ Start
    \/ Stop
    \/ Schedule
    \/ Pump
    \/ Tick
    \/ LoadBanks
    \/ Unlock
    \/ PlayNote
    \/ StopAllVoices
    \/ PlayTone
    \/ PlayToneBus
    \/ OnEnded

Spec == Init /\ [][Next]_vars

InitCore == InitAll /\ inst = "SQAudioCore"

InitEnv ==
    /\ InitBase
    /\ fnRes = {}
    /\ \/ inst = "SQAudioEngine" /\ fnArg \in NoteEnvArgs
       \/ inst = "SQAudioCore" /\ fnArg \in ToneEnvArgs

SpecEnv == InitEnv /\ [][NextEnv]_vars

InitNoise == InitAll /\ inst \in {"SQAudioCore", "SQAudioEngine"}

SpecNoise == InitNoise /\ [][NextNoise]_vars

SpecCrush == InitCore /\ [][NextCrush]_vars

SpecCache == InitNoise /\ [][NextCache]_vars

SpecCurve == InitCore /\ [][NextCurve]_vars

SpecBus == InitCore /\ [][NextBus]_vars

SpecCore == InitCore /\ [][NextCore]_vars

InitEngine == InitAll /\ inst = "SQAudioEngine"

SpecEngine == InitEngine /\ [][NextEngine]_vars

SpecPhrase == InitEngine /\ [][NextPhrase]_vars

SpecLife == InitEngine /\ [][NextLife]_vars

SpecVoice == InitEngine /\ [][NextVoice]_vars

\* The engine under its scheduling: the audio clock advances, the interval
\* timer of a running scheduler keeps pumping, and an engine that is not
\* running is eventually resumed
TimerPump == running /\ Pump
WakeUp == ~running /\ (Unlock \/ Resume)

SpecVoiceFair ==
    /\ SpecVoice
    /\ WF_vars(Tick)
    /\ SF_vars(TimerPump)
    /\ WF_vars(WakeUp)

SpecBanks == InitEngine /\ [][NextBanks]_vars

SpecSong == InitEngine /\ [][NextSong]_vars

\* Voices with vibrato, of either object
SpecVib == InitNoise /\ [][NextVib]_vars

\* The engine with the loop timers of its songs firing as the clock advances
SpecLoop == InitEngine /\ [][NextLoop]_vars

InitSched == InitAll /\ inst = "ClockScheduler"

SpecTimer == InitSched /\ [][NextTimer]_vars

SpecSched == InitSched /\ [][NextSched]_vars

\* Manual notes, a phrase and songs, and the stop of one song's handle
SpecStop == InitEngine /\ [][NextStop]_vars

\* The scheduler driven directly, and driven by the engine's lifecycle
SpecLifecycle == Init /\ [][NextLifecycle]_vars

SpecFire == InitSched /\ [][NextFire]_vars

-----------------------------------------------------------------------------
(* Properties of ClockScheduler *)

Due(it) == Le(it.t, clock + LookaheadMs)

\* C1: the pending queue is sorted ascending by targetTime and two actions
\* with equal targetTime stay in the order in which they were scheduled.
\* Stated over the entries whose targetTime is a real time, so that an entry
\* with targetTime NaN is not itself counted as out of order.
QueueOrdered ==
    \A i, j \in 1..Len(queue) :
        (i < j /\ ~IsNaN(queue[i].t) /\ ~IsNaN(queue[j].t)) =>
            /\ queue[i].t <= queue[j].t
            /\ (queue[i].t = queue[j].t => queue[i].id < queue[j].id)

\* C2: when a running scheduler's pump returns, every action it ran had
\* targetTime <= clock + lookahead, every action that was queued and due has
\* been run, and no action with targetTime <= clock + lookahead is left in the
\* queue (actions enqueued during the pump included).
PumpDrainsAllDue ==
    (last.op = "pump" /\ running) =>
        /\ \A i \in 1..Len(last.ran) : Due(last.ran[i])
        /\ \A i \in 1..Len(last.pre) :
              Due(last.pre[i]) => last.pre[i].id \in Ids(last.ran)
        /\ \A i \in 1..Len(queue) : ~Due(queue[i])

\* C3: if an action executed by the pump throws, the pump still executes every
\* other due action of that pump run, the failing action is removed from the
\* queue, and the scheduler stays running.
PumpFaultIsolation ==
    (last.op = "pump" /\ last.threw # {}) =>
        /\ running
        /\ last.threw \cap Ids(queue) = {}
        /\ \A i \in 1..Len(last.pre) :
              Due(last.pre[i]) => last.pre[i].id \in Ids(last.ran)
        /\ \A i \in 1..Len(queue) : ~Due(queue[i])

\* C4: stop() empties the queue and none of the actions pending at the time of
\* stop is ever executed afterwards; no action is executed while the scheduler
\* is stopped; a pump after a later start() runs actions against the current
\* audio clock.
StopDiscardsStartResumes ==
    /\ (last.op = "stop" => queue = << >> /\ ~running /\ ~timer)
    /\ dropped \cap executed = {}
    /\ dropped \cap Ids(queue) = {}
    /\ (last.op = "pump" /\ last.ran # << >>) =>
          /\ running
          /\ \A i \in 1..Len(last.ran) : Due(last.ran[i])

\* C4 witness: after a stop that discarded an action and a later start, a pump
\* at a later clock has run an action scheduled after the stop, one that was
\* not yet due at the clock of the stop.
StopStartWitness ==
    /\ last.op = "pump"
    /\ dropped # {}
    /\ clock = MaxTicks * IntervalMs
    /\ \E i \in 1..Len(last.ran) :
          /\ \A d \in dropped : last.ran[i].id > d
          /\ last.ran[i].t > LookaheadMs

-----------------------------------------------------------------------------
(* Properties of the mono registries of SQAudioEngine and SQAudioCore *)

\* The voices of the instance and its registry (_activeMono / _activeTracks)
AllNodes == IF inst = "SQAudioCore" THEN cnodes ELSE nodes
Registry == IF inst = "SQAudioCore" THEN activeTracks ELSE activeMono
PlayOps == {"playNote", "playTone", "playToneBus"}

\* A voice sits under a mono key when its tone is not poly / its trackId is
\* not null.
UnderMonoKey(n) ==
    /\ n.key # ""
    /\ (n.by = "playNote" => Tone(n.key).mono # "poly")

\* The audio time from which the voice is silent: the end of its release, the
\* end of a fade to zero, or the stop of its source, whichever comes first.
SilentAt(n) == Min(Min(n.tR, n.stop), OrElse(n.fadeEnd, n.stop))

\* C5: at any audio time at most one voice under a mono key is live: no two
\* voices of one key have overlapping intervals [start, silent).
MonoExclusive ==
    \A i, j \in 1..Len(AllNodes) :
        (i < j /\ AllNodes[i].key = AllNodes[j].key /\ UnderMonoKey(AllNodes[i])) =>
            ~(Max(AllNodes[i].start, AllNodes[j].start)
                < Min(SilentAt(AllNodes[i]), SilentAt(AllNodes[j])))

\* C6: after a trigger of B on a key under which A was registered, the
\* registry holds exactly one entry for the key, and it names B's voice and
\* B's release end.
MonoRegistryAfterSteal ==
    (last.op \in PlayOps /\ last.old # 0) =>
        MapGet(Registry, last.key) =
            {Entry(last.key, last.new, AllNodes[last.new].tR)}

\* C6 witness: playNote on a non-poly tone has returned, and the registry
\* held another voice under that tone when it was called.
MonoStealWitness ==
    /\ last.op = "playNote"
    /\ last.old # 0
    /\ last.old # last.new
    /\ \E e \in last.reg : e.key = last.key /\ e.vid = last.old

\* C7: after a steal the old voice has had its gain automation cancelled at
\* the time of the steal, has a linear fade to silence that ends after it, and
\* has its source stopped slightly after the end of that fade.
StealProcedure ==
    (last.op \in PlayOps /\ last.old # 0) =>
        LET n == AllNodes[last.old]
        IN  /\ clock \in n.cancelAt
            /\ n.fadeEnd # {}
            /\ \A f \in n.fadeEnd :
                  /\ f > clock
                  /\ n.stop > f
                  /\ n.stop <= f + StopTailMs

\* C8: a completion callback removes the entry the completing voice
\* registered, if it is still in the registry, and no other entry: the entry
\* of a newer voice under the same key is left in place.
CompareBeforeDelete ==
    last.op = "onended" =>
        activeTracks = {e \in last.reg : e.vid # last.old}

\* C8 witness: the completion callback of a voice has run while the registry
\* held a newer voice under the same key, and that entry is still there.
SupersededEndedWitness ==
    /\ last.op = "onended"
    /\ \E e \in last.reg :
          /\ e.key = last.key
          /\ e.vid > last.old
          /\ e \in activeTracks

\* C9: once a registered voice has completed (its source has stopped and its
\* completion action has run) and nothing is pending, the registry no longer
\* holds the entry of that voice.
DeregisteredOnCompletion ==
    \A e \in Registry :
        ~(/\ clock >= AllNodes[e.vid].stop
          /\ e.vid \in cleaned \cup ended
          /\ queue = << >>)

\* C10: after stopAllVoices(tStop) the stop action of every tracked voice has
\* been invoked with tStop, or clock + 0.01 when omitted; _voices and
\* _activeMono are empty; also when the stop of a voice throws.
StopAllVoicesClears ==
    last.op = "stopAllVoices" =>
        /\ last.t = OrElse(last.arg, clock + DefaultStopMs)
        /\ last.called = last.tracked
        /\ \A v \in last.tracked \ last.threw : nodes[v].stop = last.t
        /\ voices = {}
        /\ activeMono = {}

\* C10 witness: stopAllVoices has returned; a voice was tracked, a mono slot
\* was occupied, and the stop of a tracked voice threw.
StopAllThrowWitness ==
    /\ last.op = "stopAllVoices"
    /\ last.tracked # {}
    /\ last.reg # {}
    /\ last.threw \cap last.tracked # {}

-----------------------------------------------------------------------------
(* Properties of playPhrase / playSong triggers *)

\* The note triggers enqueued for phrases and for songs without a loop
OneShot(n) == n.win = {}
GivenBeat(n) == n.beat # {} /\ IsFinite(OrElse(n.beat, 0))

UnknownIdIsError ==
    /\ last.op = "playNoteError" =>
          /\ queue = last.pre
          /\ activeMono = last.reg
          /\ voices = last.tracked
          /\ voiceSerial = last.serial
    /\ last.op = "pump" =>
          \A j \in 1..Len(last.ran) :
              (last.ran[j].k = "note" /\ last.ran[j].note.toneId \notin ToneIds) =>
                  last.ran[j].id \in last.threw
    /\ last.op = "playPhrase" => Len(queue) = Len(last.pre) + last.new

-----------------------------------------------------------------------------
(* Properties of playSong *)

\* Enqueue records of song h, of its event i
SongNotes(h) == {j \in 1..Len(enq) : enq[j].note.h = h}
EventNotes(h, i) == {j \in SongNotes(h) : enq[j].note.ev = i}

\* Beat positions of the loop of song sg, and event i lying in the window
LoopStart(sg) == OrElse(sg.loop, Window(0, 0)).start
LoopEnd(sg) == OrElse(sg.loop, Window(0, 0)).end
InLoop(sg, i) ==
    LoopStart(sg) <= EventBeat(SongEvents[i]) /\ EventBeat(SongEvents[i]) < LoopEnd(sg)

\* Milliseconds of q quarter beats at the tempo of sg
SongMs(sg, q) == (q * BeatMs(sg.tempo)) \div QuarterBeats

\* Start time of pass k through the window: tStart + start*(60/T) + k*L*(60/T)
PassStart(sg, k) ==
    sg.tStart + SongMs(sg, LoopStart(sg)) + k * SongMs(sg, LoopEnd(sg) - LoopStart(sg))

\* The enqueue records of a song and its iteration index change in playSong
\* and in pumpLoop only: a property of them is stated of the states these reach.
SongEnqueued == last.op \in {"playSong", "pumpLoop"}

\* A voice that has started and whose envelope has not yet reached its end
Sounding(n) == n.by # "rejected" /\ n.start <= clock /\ clock < SilentAt(n)

\* C11: once a song handle is stopped, no queued note of the song is triggered
\* and no further note of it is enqueued, and at the moment of the stop every
\* voice that is sounding has its source stopped by currentTime + 0.01.
SongStopSilences ==
    /\ \A h \in 1..Len(songs) :
          songs[h].stopped =>
             /\ last.op = "pump" =>
                   \A j \in 1..Len(last.ran) :
                      (last.ran[j].k = "note" /\ last.ran[j].note.h = h)
                         => last.ran[j].a = -1
             /\ last.op = "pumpLoop" /\ last.new = h => Len(queue) = Len(last.pre)
    /\ last.op = "songStop" =>
          /\ queue = << >>
          /\ \A v \in 1..Len(nodes) : Sounding(nodes[v]) => nodes[v].stop <= last.t

LoopCoverage ==
    SongEnqueued =>
    \A h \in 1..Len(songs) :
       songs[h].loop # {} =>
          \A i \in 1..Len(SongEvents) :
             LET sg == songs[h]
                 recs == {j \in 1..Len(enq) : enq[j].note.h = h /\ enq[j].note.ev = i}
                 off == SongMs(sg, EventBeat(SongEvents[i]))
             IN  IF InLoop(sg, i)
                 THEN /\ Cardinality(recs) = sg.nextLoopI + 1
                      /\ {enq[j].t : j \in recs}
                            = {PassStart(sg, k) + off - SongMs(sg, LoopStart(sg)) :
                                 k \in 0..sg.nextLoopI}
                 ELSE /\ Cardinality(recs) = 1
                      /\ {enq[j].t : j \in recs} = {sg.tStart + off}

\* A loop with a prologue and an epilogue event after the timer added a pass
LoopCoverageWitness ==
    \E h \in 1..Len(songs) :
       /\ songs[h].loop = {Window(4, 8)}
       /\ songs[h].nextLoopI >= 3
       /\ last.op = "pumpLoop"
       /\ EventNotes(h, 1) # {} /\ EventNotes(h, 5) # {}

\* Enqueue records scheduled under a finite window, with the event's own
\* duration in quarter beats and the window's end
Clamped == {j \in 1..Len(enq) :
               enq[j].note.win # {} /\ OrElse(enq[j].note.win, 0).end # Infinity}
OwnBeats(j) == OrElse(SongEvents[enq[j].note.ev].d, DefaultDBeat)
Crosses(j) ==
    EventBeat(SongEvents[enq[j].note.ev]) + OwnBeats(j)
       > OrElse(enq[j].note.win, 0).end
EndsOn(j) ==
    EventBeat(SongEvents[enq[j].note.ev]) + OwnBeats(j)
       = OrElse(enq[j].note.win, 0).end
ToWindowEnd(j) ==
    ((OrElse(enq[j].note.win, 0).end - EventBeat(SongEvents[enq[j].note.ev]))
        * BeatMs(enq[j].note.tempo)) \div QuarterBeats
OwnMs(j) == (OwnBeats(j) * BeatMs(enq[j].note.tempo)) \div QuarterBeats

-----------------------------------------------------------------------------
(* Properties of the lifecycle *)

\* C17: whatever numeric parameter of playNote is not finite, no call to the
\* backend is handed a time that is not finite, and the start, note-off,
\* release-end and source-stop time of every voice are finite.
NumericHygiene ==
    \A v \in 1..Len(nodes) :
       /\ nodes[v].by # "rejected"
       /\ IsFinite(nodes[v].start) /\ IsFinite(nodes[v].tOff)
       /\ IsFinite(nodes[v].tR) /\ IsFinite(nodes[v].stop)

\* C19: a voice is created only in state 'running': a playNote call that
\* creates a voice, and a pump that triggers one, happens in that state.
ArmedPrecondition ==
    /\ last.op = "playNote" => state = "running"
    /\ last.op = "pump" =>
          \A j \in 1..Len(last.ran) :
             (last.ran[j].k = "note" /\ last.ran[j].a > 0) => state = "running"

\* C20: losing visibility only suspends the pump: it keeps the pending
\* actions, no action is executed while the document is hidden, and on return
\* the pump runs exactly when the engine state is 'running'.
VisibilitySuspends ==
    /\ last.op = "hide" => (~running /\ queue = last.pre)
    /\ (hidden /\ last.op = "pump") => last.ran = << >>
    /\ last.op = "show" => (running <=> state = "running")

-----------------------------------------------------------------------------
(* Properties of loadBanks *)

\* The tones of the installed tone bank, and the banks a loadBanks call found
InstalledTones ==
    LET tb == OrElse(banks.tone, ToneBankOf(TRUE, {}))
        ts == OrElse(tb.tones, << >>)
    IN  {ts[i] : i \in 1..Len(ts)}
BanksFound == OrElse(last.arg, [banks |-> NoBanks]).banks

\* C21: a loadBanks call that throws leaves the installed tone bank, the
\* installed wave bank and the waveform table as it found them; and no defect
\* of the installed banks is left for playNote to find: every tone has an osc
\* of a known type, and the waveform of every tone of type 'wave' is in the
\* waveform table.
LoadBanksRejectsFirst ==
    /\ last.op = "loadBanksError" => banks = BanksFound
    /\ \A t \in InstalledTones :
          /\ t.osc # {}
          /\ OrElse(t.osc, Osc("", {})).type \in OscTypes
          /\ OrElse(t.osc, Osc("", {})).type = "wave" =>
                OrElse(t.osc, Osc("", {})).waveId \subseteq banks.waves

-----------------------------------------------------------------------------
(* Properties of the buses *)

\* The first call logged for bus key k
FirstBusCall(k) ==
    busLog[CHOOSE i \in 1..Len(busLog) :
              /\ busLog[i].key = k
              /\ \A j \in 1..(i - 1) : busLog[j].key # k]

\* C22: the bus of a key has the parameters of the first call made for the
\* key, whatever later calls passed; one chain was built for the key; and a
\* call for a key that has a bus leaves the cache as it found it.
BusFrozen ==
    /\ \A b \in busCache :
          LET c == FirstBusCall(b.key)
          IN  /\ b.hpf = OrElse(c.filter.hpf, 20)
              /\ b.lpf = OrElse(c.filter.lpf, 12000)
              /\ b.bd = BitsKey(OrElse(c.filter.bd, 12))
              /\ b.sr = (IF OrElse(c.filter.sr, 44100) < SampleRate
                         THEN OrElse(c.filter.sr, 44100) ELSE 0)
              /\ b.gain = (IF IsFinite(c.gain) THEN c.gain ELSE 100)
    /\ \A k \in {busLog[i].key : i \in 1..Len(busLog)} :
          /\ Cardinality({i \in 1..Len(busLog) : busLog[i].key = k /\ busLog[i].built}) = 1
          /\ Cardinality({b \in busCache : b.key = k}) = 1
    /\ (last.op = "getOrCreateBus" /\ \E b \in last.reg : b.key = last.key)
          => busCache = last.reg

\* A bus built by playToneBus, then asked for with another filter and gain
BusFrozenWitness ==
    /\ Len(busLog) >= 2
    /\ busLog[1].filter = NoFilter /\ busLog[1].built
    /\ \E i \in 2..Len(busLog) :
          /\ busLog[i].key = busLog[1].key
          /\ busLog[i].filter # NoFilter
          /\ busLog[i].gain # busLog[1].gain

-----------------------------------------------------------------------------
(* Properties of a playNote trigger *)

\* The params of the playNote call that produced this state, its voice, and
\* the release time of its tone
NoteParams == OrElse(last.arg, [toneId |-> "", t0 |-> {}, d |-> 0, busKey |-> ""])
NoteVoice == nodes[last.new]
NoteRelease == Tone(NoteParams.toneId).release
CleanupAt(v) == {queue[i].t : i \in {x \in 1..Len(queue) :
                                       queue[x].k = "cleanup" /\ queue[x].a = v}}

\* C23 as stated: a trigger at t0 with a duration dSec on a tone with release
\* time r has tOff = t0 + dSec and tR = t0 + dSec + r, and the source's hard
\* stop and the cleanup lie after tR.
NoteTimingAsGiven ==
    (last.op = "playNote" /\ IsFinite(NoteParams.d)) =>
        /\ NoteVoice.tOff = last.t + NoteParams.d
        /\ NoteVoice.tR = last.t + NoteParams.d + NoteRelease
        /\ NoteVoice.stop > NoteVoice.tR
        /\ \A t \in CleanupAt(last.new) : t > NoteVoice.tR

\* C23: with the duration taken as at least 1 ms (250 ms when it is not
\* finite) and the release time taken into 1 ms .. 6 s, tOff = t0 + dSec and
\* tR = tOff + r; the source stops at tR + 20 ms and the one cleanup action of
\* the voice is queued at tR + 100 ms.
NoteTiming ==
    last.op = "playNote" =>
        LET d == IF IsFinite(NoteParams.d) THEN Max(1, NoteParams.d) ELSE 250
            r == Max(1, Min(6000, NoteRelease))
        IN  /\ NoteVoice.tOff = last.t + d
            /\ NoteVoice.tR = last.t + d + r
            /\ NoteVoice.stop = NoteVoice.tR + 20
            /\ CleanupAt(last.new) = {NoteVoice.tR + 100}

\* playNote({toneId: "lead", dSec: 0.5}) at a clock other than 0
NoteTimingWitness ==
    /\ last.op = "playNote"
    /\ NoteParams.d = 500 /\ NoteParams.toneId = "lead"
    /\ clock > 0
    /\ NoteVoice.tOff = clock + 500

-----------------------------------------------------------------------------
(* Properties of the envelope *)

\* The segment boundaries of the committed automation: the event times after
\* the first, and the time of the last event (the release end)
Boundaries == {fnRes[i].t : i \in 2..Len(fnRes)} \ {fnRes[1].t}
ReleaseEnd == fnRes[Len(fnRes)].t

\* C24: the gain curve of the committed automation has no jump at a segment
\* boundary (the value just before the boundary and the value at it differ by
\* no more than the rounding of one unit), whatever attack, decay, sustain,
\* release and note-off time, and its value at release end is the floor.
EnvelopeContinuous ==
    last.op = "envelope" =>
        /\ \A t \in Boundaries :
              /\ ValueBefore(fnRes, t) - ValueAt(fnRes, t) <= 1
              /\ ValueAt(fnRes, t) - ValueBefore(fnRes, t) <= 1
        /\ ValueAt(fnRes, ReleaseEnd) = (IF fnArg.kind = "note" THEN G0 ELSE Floor)

\* The times and levels of a note's envelope, from the arguments of the call
PhaseTA == fnArg.t0 + Max(0, Min(4000, fnArg.attack))
PhaseTD == PhaseTA + Max(0, Min(4000, fnArg.decay))
PhaseTOff == fnArg.t0 + Max(1, fnArg.d)
PhaseTR == PhaseTOff + Max(1, Min(6000, fnArg.release))
PhasePeak == Max(MinLevel, fnArg.peak)
PhaseSus == Max(MinLevel, PhasePeak + fnArg.sus)

\* The level the attack or decay ramp in progress has reached at note-off
LevelAtOff ==
    IF PhaseTOff <= PhaseTA
    THEN Interp(G0, fnArg.t0, PhasePeak, PhaseTA, PhaseTOff)
    ELSE Interp(PhasePeak, PhaseTA, PhaseSus, PhaseTD, PhaseTOff)

\* C32: with the note-off after the decay end the committed automation is
\* attack to peak at tA, decay to sustain at tD, sustain held until tOff,
\* release to the floor at tR, t0 <= tA <= tD < tOff < tR; with the note-off at
\* or before the decay end nothing scheduled at or after tOff is left but the
\* gain set at tOff to the level the ramp in progress has reached and one
\* release ramp to the floor ending at tR; in both cases the release ramp is
\* the last event and no attack or decay target is left after tOff.
EnvelopePhases ==
    (last.op = "envelope" /\ fnArg.kind = "note") =>
       LET n == Len(fnRes)
       IN  /\ IF PhaseTOff > PhaseTD
              THEN /\ fnRes = <<AutoEvent("set", G0, fnArg.t0),
                                AutoEvent("ramp", PhasePeak, PhaseTA),
                                AutoEvent("ramp", PhaseSus, PhaseTD),
                                AutoEvent("set", PhaseSus, PhaseTOff),
                                AutoEvent("ramp", G0, PhaseTR)>>
                   /\ fnArg.t0 <= PhaseTA /\ PhaseTA <= PhaseTD
                   /\ PhaseTD < PhaseTOff /\ PhaseTOff < PhaseTR
              ELSE /\ n >= 3
                   /\ \A i \in 1..(n - 2) : fnRes[i].t < PhaseTOff
                   /\ fnRes[n - 1] = AutoEvent("set", LevelAtOff, PhaseTOff)
                   /\ fnRes[n] = AutoEvent("ramp", G0, PhaseTR)
           /\ fnRes[n] = AutoEvent("ramp", G0, PhaseTR)
           /\ \A i \in 1..(n - 1) : fnRes[i].t <= PhaseTOff /\ fnRes[i].t < PhaseTR

\* A note released while its decay is in progress: the attack target stays,
\* the decay target is cancelled
EnvelopePhasesWitness ==
    /\ last.op = "envelope" /\ fnArg.kind = "note"
    /\ PhaseTA < PhaseTOff /\ PhaseTOff < PhaseTD
    /\ Len(fnRes) = 4
    /\ fnRes[2] = AutoEvent("ramp", PhasePeak, PhaseTA)
    /\ fnRes[3].v < PhasePeak /\ fnRes[3].v > PhaseSus

-----------------------------------------------------------------------------
(* Properties of the artifact caches *)

CurveReturned == last.op = "getBitDepthCurve"
CurveBits == BitsKey(OrElse(fnArg, 12))

\* The curve goes from -1 to +1 and never decreases
CurveMonotonic ==
    /\ fnRes.points[0] = -(2 ^ CurveBits - 1)
    /\ fnRes.points[CurvePoints - 1] = 2 ^ CurveBits - 1
    /\ \A i \in 0..(CurvePoints - 2) : fnRes.points[i] <= fnRes.points[i + 1]

CurveValues == {fnRes.points[i] : i \in 0..(CurvePoints - 1)}

\* C25: for every requested bit depth, clamped into 2..16, the curve
\* _getBitDepthCurve returns is monotonic non-decreasing from -1 to +1 and
\* holds exactly 2^bits distinct output values.
CurveLevels ==
    CurveReturned => CurveMonotonic /\ Cardinality(CurveValues) = 2 ^ CurveBits

NoiseReturned == last.op \in {"getNoiseBuffer", "noteNoise"}

\* floor(sr / r) for the requested rate r
RunLength == (SampleRate * 10) \div OrElse(fnArg, 6000)

\* C26: in the sample-and-hold buffer returned for a requested rate r every
\* run carrying one held draw has length exactly floor(sr / r), the last run
\* of the buffer, which the loop joins to the first, included.
HoldRunLength ==
    NoiseReturned =>
        \A k \in 1..Len(fnRes.runs) : fnRes.runs[k] = RunLength

\* The artifact a getter computes when it is asked for the key itself
ArtifactOf(kind, key) ==
    CASE kind = "curve" -> GetBitDepthCurveOn(NoCache, {key}).art
      [] kind = "wave32" -> GetWave32On(NoCache, {key}).art
      [] kind = "pulse" /\ inst = "SQAudioCore" -> GetPulseWaveOn(NoCache, {key}).art
      [] kind = "pulse" /\ inst = "SQAudioEngine" -> NotePulseOn(NoCache, key).art
      [] kind = "noise" /\ inst = "SQAudioCore" -> GetNoiseBufferOn(NoCache, {key * 10}).art
      [] kind = "noise" /\ inst = "SQAudioEngine" -> NoteNoiseOn(NoCache, key * 10).art

\* C28: a cached artifact is a function of its cache key only: whatever
\* request populated the entry, the artifact stored under a key is the one
\* computed for that key, so that requests that quantize to one key obtain
\* equal artifacts; and a repeated lookup hands out the stored artifact and
\* leaves the cache as it was.
CachePurity ==
    /\ \A kind \in DOMAIN artCache :
          \A e \in artCache[kind] : e.art = ArtifactOf(kind, e.key)
    /\ last.key = "hit" =>
          /\ artCache = last.reg
          /\ \E kind \in DOMAIN artCache : \E e \in artCache[kind] : e.art = fnRes

-----------------------------------------------------------------------------
(* Properties of the sample-rate crush *)

\* Output sample i (from 0) is input sample step * floor(i / step)
ZeroOrderHold(n, step) ==
    \A i \in 0..(Len(n.out) - 1) : n.out[i + 1] = InputSample(step * (i \div step))

CrushTarget == OrElse(fnArg, 0)

\* C27 as stated: the node holds with step = floor(outRate / targetRate),
\* whatever the blocks the samples arrived in.
CrushHoldAsGiven ==
    \A n \in crush :
        /\ n.step = SampleRate \div CrushTarget
        /\ ZeroOrderHold(n, SampleRate \div CrushTarget)

\* C27: a crush node with target rate T holds each input sample for step
\* samples, step = floor(outRate / T) with T raised to at least 1 Hz by the
\* worklet processor and to at least 20 Hz by the ScriptProcessor fallback:
\* output sample i is input sample step * floor(i / step), whatever the
\* blocks the samples arrived in, the hold counter carrying across blocks.
CrushHold ==
    \A n \in crush :
        /\ n.step = SampleRate \div Max(IF n.impl = "worklet" THEN 1 ELSE 20,
                                         CrushTarget)
        /\ ZeroOrderHold(n, n.step)

\* A hold of 3 samples has run across the boundaries of three blocks
CrushHoldWitness ==
    \E n \in crush : n.step = 3 /\ n.blocks >= 3 /\ Len(n.out) >= 5

-----------------------------------------------------------------------------
(* Properties of the tracked voices *)

\* The latest clock a pump is explored at reaches as far as this time
Horizon == MaxTicks * IntervalMs + LookaheadMs

\* Voice v is tracked, and its cleanup time, release end + 0.10, is within
\* reach of the pumps
TrackedDue(v) == v \in voices /\ nodes[v].tR + CleanupTailMs <= Horizon

\* C29: every voice playNote adds to _voices is eventually removed from it,
\* by its cleanup action or by a forced stop, under any interleaving of
\* playNote, pump, suspend / resume, hide / show and stopAllVoices in which
\* the engine is eventually running and the clock advances.
VoiceCleanupEventual ==
    \A v \in 1..MaxCalls : TrackedDue(v) ~> (v \notin voices)

-----------------------------------------------------------------------------
(* Properties of the lookahead *)

\* The actions scheduled ahead that the last timer callback ran, and those
\* still pending
AheadRan == {i \in 1..Len(last.ran) : last.ran[i].id \in ahead}
AheadPending == {i \in 1..Len(queue) : queue[i].id \in ahead}

\* C30: an action scheduled while the scheduler is running, with a target
\* time at least lookaheadSec after the clock, is executed by a pump at a
\* clock not later than its target time, the timer pumping every intervalMs
\* and the scheduler not being stopped in between: no such action is run by
\* a pump after its target time, and none is still pending after it.
LookaheadCommits ==
    /\ last.op = "interval" => \A i \in AheadRan : last.ran[i].t >= clock
    /\ running => \A i \in AheadPending : queue[i].t >= clock

-----------------------------------------------------------------------------
(* Properties of the loop timer *)

\* Start time of loop iteration k of song sg: iteration 0 follows the intro
IterationStart(sg, k) ==
    sg.tStart + SongMs(sg, LoopEnd(sg)) + k * SongMs(sg, LoopEnd(sg) - LoopStart(sg))

\* Every window event of iteration k of song h has an enqueue record in log
IterationEnqueuedIn(log, h, sg, k) ==
    \A i \in 1..Len(SongEvents) :
       InLoop(sg, i) =>
          \E j \in 1..Len(log) :
             /\ log[j].note.h = h /\ log[j].note.ev = i
             /\ log[j].note.base = IterationStart(sg, k)
             /\ log[j].t = IterationStart(sg, k)
                             + SongMs(sg, EventBeat(SongEvents[i]) - LoopStart(sg))

\* A looping song whose loop timer is set
LoopRunning(sg) == sg.timer /\ ~sg.stopped /\ sg.loop # {}

\* Every iteration of sg starting by tMax has its records in log
FilledTo(log, h, sg, tMax) ==
    \A k \in 0..sg.nextLoopI :
       IterationStart(sg, k) <= tMax => IterationEnqueuedIn(log, h, sg, k)

\* A step in which pumpLoop of song h has returned
PumpLoopReturned(h) ==
    \/ last'.op = "loopInterval"
    \/ last'.op \in {"pumpLoop", "playSong"} /\ last'.new = h

\* The loop iterations of song h enqueued by the step
IterationsAdded(h) ==
    {enq'[j].note.base : j \in {x \in (Len(enq) + 1)..Len(enq') : enq'[x].note.h = h}}

LoopLeadStep ==
    \A h \in 1..Len(songs') :
       LoopRunning(songs'[h]) =>
          /\ PumpLoopReturned(h) =>
                FilledTo(enq', h, songs'[h],
                         clock' + LookaheadMs + OrElse(songs'[h].lead, DefaultLoopLeadMs))
          /\ (PumpLoopReturned(h) /\ h <= Len(songs)) =>
                songs'[h].nextLoopI - songs[h].nextLoopI
                   = Cardinality(IterationsAdded(h))
          /\ FilledTo(enq', h, songs'[h], clock' + Max(20, IntervalMs))

-----------------------------------------------------------------------------
(* Properties of the vibrato *)

\* The source a vibrato oscillator modulates
ParentOf(l) == IF inst = "SQAudioCore" THEN cnodes[l.of] ELSE nodes[l.of]

\* The vibrato oscillator starts with its parent and stops when it stops
VibratoLifetime ==
    \A i \in 1..Len(lfos) :
       /\ lfos[i].start = ParentOf(lfos[i]).start
       /\ lfos[i].stop = ParentOf(lfos[i]).stop

\* The depth automation calls are made in time order
VibratoOrder ==
    \A i \in 1..Len(lfos) :
       \A j \in 1..(Len(lfos[i].pts) - 1) : lfos[i].pts[j].t <= lfos[i].pts[j + 1].t

\* C33: the vibrato oscillator of a note with depth > 0 is started with the
\* parent source and stopped at the same time as the parent on every stop
\* path (hard stop after the release, mono steal, stopAllVoices), and its
\* depth automation points are committed in time order, t0 <= tOn <= tPeak <=
\* tOff <= tRel, for every delay, attack, release and note duration.
VibratoWithParent == VibratoLifetime /\ VibratoOrder

-----------------------------------------------------------------------------
(* Properties of the firing order *)

\* C34: over any sequence of schedule and pump operations, actions that
\* enqueue further actions while the pump drains included, the target times
\* of the actions are non-decreasing in the order the pump executes them.
FiringMonotone ==
    \A i \in 1..(Len(fired) - 1) : fired[i] <= fired[i + 1]

-----------------------------------------------------------------------------
(* Properties of the pump timer *)

\* C35: after any sequence of unlock, resume, suspend, visibility changes,
\* song stops and direct start / stop calls the scheduler has at most one
\* interval timer set, it has one exactly when its running flag is true, and
\* a start() of a running scheduler sets no second timer.
SinglePumpTimer ==
    /\ timers <= 1
    /\ (timers = 1) <=> running
    /\ timer <=> running

\* start() was called on a running scheduler
SinglePumpTimerWitness ==
    /\ last.op = "start" /\ last.old = 1
    /\ running /\ timers = 1

-----------------------------------------------------------------------------
(* Properties of a song handle's stop *)

\* The step is a handle.stop() of song h and it acted on the whole engine
SongStopStep ==
    last'.op = "songStop" =>
        LET h == last'.new
        IN  /\ queue' = << >>
            /\ Ids(queue) \subseteq dropped'
            /\ last'.called = voices
            /\ \A v \in voices : nodes'[v].stop = clock + DefaultStopMs
            /\ voices' = {}
            /\ activeMono' = {}
            /\ running' = (state' = "running")
            /\ timer' = running'
            /\ songs'[h].stopped /\ ~songs'[h].timer
            /\ Len(songs') = Len(songs)
            /\ \A g \in (1..Len(songs)) \ {h} : songs'[g] = songs[g]

\* C36: the stop of one song's handle empties the whole scheduler queue, the
\* pending triggers of every other phrase or song and every pending
\* voice-cleanup action included, and none of them is executed afterwards; it
\* stops every tracked voice, whichever song or manual call created it; it
\* leaves the scheduler running exactly when the engine state is 'running';
\* and it leaves the loop timers of the other songs as they were.
SongStopEngineWide ==
    [][SongStopStep /\ dropped' \cap executed' = {}]_vars

\* C36 witness: of two looping songs one was stopped while the engine was
\* running; the queue held a trigger of a phrase, a trigger of the other song
\* and a cleanup action; a voice of a manual playNote and a voice created by a
\* trigger were tracked; the other song's loop timer is still set.
SongStopWitness ==
    /\ last.op = "songStop"
    /\ state = "running" /\ running
    /\ \E g \in (1..Len(songs)) \ {last.new} :
          /\ songs[g].timer /\ ~songs[g].stopped
          /\ \E i \in 1..Len(last.pre) :
                last.pre[i].k = "note" /\ last.pre[i].note.h = g
    /\ \E i \in 1..Len(last.pre) : last.pre[i].k = "note" /\ last.pre[i].note.h = 0
    /\ \E i \in 1..Len(last.pre) : last.pre[i].k = "cleanup"
    /\ \E v \in last.tracked : nodes[v].key = "bass"
    /\ \E v \in last.tracked : nodes[v].key # "bass"
    /\ queue = << >> /\ voices = {}

====
